---- MODULE Spec2Model ----
(***************************************************************************)
(* Blending of rasterized fragments into RGBA images                       *)
(* (pytorch3d/renderer/blending.py), the autograd pairing of the sigmoid   *)
(* alpha kernel, the background step of the point compositors              *)
(* (renderer/points/compositor.py) and the mesh rasterizer facade          *)
(* (renderer/mesh/rasterizer.py).  Each part has its own specification     *)
(* over its own variables; the variables of the other parts stay idle.     *)
(*                                                                         *)
(* Numbers.  A float x is the integer x * One (a grid of 1/One).  Sums and *)
(* products of grid values are kept exact as scaled integers and a value   *)
(* is put back on the grid where the code produces a tensor that is used   *)
(* again (a quotient, exp, sigmoid, a weight): the rounding of a single    *)
(* float operation is far below the grid.  Eps, the code's 1e-10, is the   *)
(* smallest positive grid value.                                           *)
(*                                                                         *)
(* Tensors.  The leading dimensions (N, H, W) are flattened, in row-major  *)
(* order, into pixels 1..P; a tensor of shape (N, H, W, K) is a sequence   *)
(* of P sequences of length K, and slot 0 of the code is index 1 here.     *)
(***************************************************************************)
EXTENDS Integers, Sequences, FiniteSets, TLC

VARIABLES colors, fragments, blend_params, znear, zfar, image, last_call

\* _SigmoidAlphaBlend: the arguments and result of every forward invocation,
\* the ctx object of every invocation, the backward kernel calls.
VARIABLES forward_calls, ctx, backward_calls

\* Point compositors: the compositor object, the arguments of the call
\* (with the image accumulated by the reduction primitive), the returned
\* image, the warnings emitted.
VARIABLES compositor, comp_call, comp_images, warnings

\* MeshRasterizer: the rasterizer object, the arguments of the call, the
\* calls made on the cameras, the meshes and the rasterization primitive,
\* the outcome.
VARIABLES rasterizer, rast_call, rast_log, rast_result

blendvars == <<colors, fragments, blend_params, znear, zfar, image, last_call>>
autogradvars == <<forward_calls, ctx, backward_calls>>
compositorvars == <<compositor, comp_call, comp_images, warnings>>
rasterizervars == <<rasterizer, rast_call, rast_log, rast_result>>

vars == <<blendvars, autogradvars, compositorvars, rasterizervars>>

\* The float 1.0.
One == 64

\* eps = 1e-10: the floor of z_inv_max and of delta.
Eps == 1

\* The largest number of fragment slots (pixels times K) of an input.
MaxSlots == 3

\* ------------------------------------------------------------------------
\* Arithmetic on the grid

RECURSIVE SumSeq(_)
SumSeq(s) == IF s = <<>> THEN 0 ELSE Head(s) + SumSeq(Tail(s))

RECURSIVE ProdSeq(_)
ProdSeq(s) == IF s = <<>> THEN 1 ELSE Head(s) * ProdSeq(Tail(s))

RECURSIVE MaxSeq(_)
MaxSeq(s) ==
  IF Len(s) = 1 THEN s[1]
  ELSE LET m == MaxSeq(Tail(s)) IN IF s[1] >= m THEN s[1] ELSE m

RECURSIVE Pow(_, _)
Pow(b, n) == IF n = 0 THEN 1 ELSE b * Pow(b, n - 1)

\* a / b and a * b of two grid values, back on the grid.
FDiv(a, b) == (a * One) \div b
FMul(a, b) == (a * b) \div One

\* Tensor.clamp(min=m)
ClampMin(x, m) == IF x < m THEN m ELSE x

\* One * e^(-n) for n = 0, 1, 2, ...; 0 from Len(ExpTable) on (underflow).
ExpTable == <<64, 24, 9, 3, 1>>

ExpAt(n) == IF n + 1 <= Len(ExpTable) THEN ExpTable[n + 1] ELSE 0

\* e^(-t) for a grid value t >= 0: exact at whole t, linear in between.
ExpNeg(t) ==
  LET n == t \div One
      f == t % One
  IN ExpAt(n) - ((ExpAt(n) - ExpAt(n + 1)) * f) \div One

\* torch.exp: monotone, exp(0) = 1, 0 on underflow, One * One on overflow.
Exp(x) ==
  IF x <= 0 THEN ExpNeg(-x)
  ELSE IF ExpNeg(x) = 0 THEN One * One
  ELSE (One * One) \div ExpNeg(x)

\* torch.sigmoid: 1 / (1 + e^(-x)); exactly 1 or 0 once e^(-|x|) underflows.
Sigmoid(x) ==
  IF x >= 0 THEN (One * One) \div (One + ExpNeg(x))
  ELSE (ExpNeg(-x) * One) \div (One + ExpNeg(-x))

\* ------------------------------------------------------------------------
\* Shapes and tensor primitives

NumPix(fr) == Len(fr.pix_to_face)
NumK(fr) == Len(fr.pix_to_face[1])

\* Tensor.masked_scatter on flattened tensors: the elements of source are
\* copied, in order, into the positions of self where mask is true.
MaskedScatter(self, mask, source) ==
  [i \in 1..Len(self) |->
     IF mask[i]
     THEN source[Cardinality({j \in 1..i : mask[j]})]
     ELSE self[i]]

\* Variant: the color expanded along the other axis
\* (background_color[:, None].expand(-1, n)), flattened.
Expand_transposed(row, n) ==
  [i \in 1..(Len(row) * n) |-> row[((i - 1) \div n) + 1]]

\* background_color[None, :].expand(n, -1), flattened.
RECURSIVE Expand(_, _)
Expand(row, n) == IF n = 0 THEN <<>> ELSE row \o Expand(row, n - 1)

\* A (P, C) tensor flattened in row-major order, and back.
RECURSIVE Flatten(_)
Flatten(t) == IF t = <<>> THEN <<>> ELSE Head(t) \o Flatten(Tail(t))

Unflatten(flat, C) ==
  [p \in 1..(Len(flat) \div C) |-> [ch \in 1..C |-> flat[(p - 1) * C + ch]]]

\* ------------------------------------------------------------------------
\* hard_rgb_blend

\* Variant: the background test made on the last slot
\* (pix_to_face[..., -1] < 0).
is_background_lastslot(fr) ==
  [p \in 1..NumPix(fr) |-> fr.pix_to_face[p][NumK(fr)] < 0]

\* Variant: the background test written <= 0, taking face 0 for "no face".
is_background_le(fr) == [p \in 1..NumPix(fr) |-> fr.pix_to_face[p][1] <= 0]

\* fragments.pix_to_face[..., 0] < 0
is_background(fr) == [p \in 1..NumPix(fr) |-> fr.pix_to_face[p][1] < 0]

\* is_background.sum()
num_background_pixels(fr) ==
  Cardinality({p \in 1..NumPix(fr) : is_background(fr)[p]})

\* Variant: the mask broadcast along the leading axis (is_background[None])
\* instead of the channel axis.
BroadcastMask_leading(m, C) ==
  [i \in 1..(Len(m) * C) |-> m[((i - 1) % Len(m)) + 1]]

\* is_background[..., None] broadcast over the 3 channels, flattened.
BroadcastMask(m, C) == [i \in 1..(Len(m) * C) |-> m[((i - 1) \div C) + 1]]

\* colors[..., 0, :]
Slot0Colors(c) == [p \in 1..Len(c) |-> c[p][1]]

\* Variant: the result of the out-of-place masked_scatter dropped, the
\* background pixels keeping colors[..., 0, :].
hard_rgb_blend_unpainted(c, fr, bp) ==
  [p \in 1..NumPix(fr) |-> Slot0Colors(c)[p] \o <<One>>]

hard_rgb_blend(c, fr, bp) ==
  LET pixel_colors ==
        Unflatten(
          MaskedScatter(Flatten(Slot0Colors(c)),
                        BroadcastMask(is_background(fr), 3),
                        Expand(bp.background_color, num_background_pixels(fr))),
          3)
  IN [p \in 1..NumPix(fr) |-> pixel_colors[p] \o <<One>>]

\* ------------------------------------------------------------------------
\* sigmoid_alpha_blend

\* _C.sigmoid_alpha_blend, the fused kernel: per pixel
\* 1 - prod over the real slots of (1 - sigmoid(-dist / sigma)).
C_sigmoid_alpha_blend(d, f, sigma) ==
  [p \in 1..Len(f) |->
     LET K == Len(f[p])
         factor == [k \in 1..K |->
                      IF f[p][k] < 0 THEN One
                      ELSE One - Sigmoid(FDiv(-d[p][k], sigma))]
     IN One - (ProdSeq(factor) \div Pow(One, K - 1))]

\* _SigmoidAlphaBlend.forward: the alphas the kernel returns.
SigmoidAlphaBlend_forward(d, f, sigma) == C_sigmoid_alpha_blend(d, f, sigma)

\* Variant: RGB copied from the last slot instead of slot 0.
sigmoid_alpha_blend_lastslot(c, fr, bp) ==
  LET alpha == SigmoidAlphaBlend_forward(fr.dists, fr.pix_to_face, bp.sigma)
  IN [p \in 1..NumPix(fr) |->
        [ch \in 1..4 |-> IF ch = 4 THEN alpha[p] ELSE c[p][NumK(fr)][ch]]]

\* Variant: gamma passed to the kernel in place of sigma.
sigmoid_alpha_blend_gamma(c, fr, bp) ==
  LET alpha == SigmoidAlphaBlend_forward(fr.dists, fr.pix_to_face, bp.gamma)
  IN [p \in 1..NumPix(fr) |->
        [ch \in 1..4 |-> IF ch = 4 THEN alpha[p] ELSE c[p][1][ch]]]

\* Variant: RGB premultiplied by the alpha.
sigmoid_alpha_blend_premultiplied(c, fr, bp) ==
  LET alpha == SigmoidAlphaBlend_forward(fr.dists, fr.pix_to_face, bp.sigma)
  IN [p \in 1..NumPix(fr) |->
        [ch \in 1..4 |->
           IF ch = 4 THEN alpha[p] ELSE FMul(alpha[p], c[p][1][ch])]]

\* Variant: the pixels whose slot 0 is a sentinel painted with the
\* background color, as hard_rgb_blend does.
sigmoid_alpha_blend_background(c, fr, bp) ==
  LET alpha == SigmoidAlphaBlend_forward(fr.dists, fr.pix_to_face, bp.sigma)
  IN [p \in 1..NumPix(fr) |->
        [ch \in 1..4 |->
           IF ch = 4 THEN alpha[p]
           ELSE IF fr.pix_to_face[p][1] < 0 THEN bp.background_color[ch]
           ELSE c[p][1][ch]]]

\* pixel_colors = torch.ones((N, H, W, 4)); pixel_colors[..., :3] =
\* colors[..., 0, :]; pixel_colors[..., 3] = _sigmoid_alpha(dists,
\* pix_to_face, sigma)
sigmoid_alpha_blend(c, fr, bp) ==
  LET ones == [p \in 1..NumPix(fr) |-> <<One, One, One, One>>]
      rgb == [p \in 1..NumPix(fr) |->
                [ch \in 1..4 |-> IF ch <= 3 THEN c[p][1][ch] ELSE ones[p][ch]]]
      alpha == SigmoidAlphaBlend_forward(fr.dists, fr.pix_to_face, bp.sigma)
  IN [p \in 1..NumPix(fr) |->
        [ch \in 1..4 |-> IF ch = 4 THEN alpha[p] ELSE rgb[p][ch]]]

\* ------------------------------------------------------------------------
\* softmax_rgb_blend
\*
\* The tensor expressions of the code are elementwise over the pixels: each
\* is written here for one pixel px, a record of the pixel's K-vectors
\* (pix_to_face, dists, zbuf, colors), and softmax_rgb_blend maps over the
\* pixels.

PixelAt(c, fr, p) ==
  [pix_to_face |-> fr.pix_to_face[p], dists |-> fr.dists[p],
   zbuf |-> fr.zbuf[p], colors |-> c[p]]

\* Variant: the mask written > 0, taking face 0 for padding.
mask_gt(px) == [k \in DOMAIN px.pix_to_face |-> IF px.pix_to_face[k] > 0 THEN 1 ELSE 0]

\* mask = fragments.pix_to_face >= 0, as the 0/1 factor it is used as.
mask(px) == [k \in DOMAIN px.pix_to_face |-> IF px.pix_to_face[k] >= 0 THEN 1 ELSE 0]

\* Variant: the probability map without the mask factor.
prob_map_unmasked(px, bp, m) ==
  [k \in DOMAIN m |-> Sigmoid(FDiv(-px.dists[k], bp.sigma))]

\* Variant: the sign of the distance lost (sigmoid(dists / sigma)).
prob_map_signflip(px, bp, m) ==
  [k \in DOMAIN m |-> Sigmoid(FDiv(px.dists[k], bp.sigma)) * m[k]]

\* prob_map = torch.sigmoid(-fragments.dists / blend_params.sigma) * mask
prob_map(px, bp, m) ==
  [k \in DOMAIN m |-> Sigmoid(FDiv(-px.dists[k], bp.sigma)) * m[k]]

\* Variant: the product of (1 - prob) linearised to 1 - sum(prob).
alpha_prod_linear(prob) == One - SumSeq(prob)

\* alpha = torch.prod((1.0 - prob_map), dim=-1)
alpha_prod(prob) ==
  ProdSeq([k \in DOMAIN prob |-> One - prob[k]]) \div Pow(One, Len(prob) - 1)

\* Variant: z_inv without the mask factor.
z_inv_unmasked(px, zn, zf, m) ==
  [k \in DOMAIN m |-> FDiv(zf - px.zbuf[k], zf - zn)]

\* Variant: the depth measured from the near plane, (zbuf - znear), so that
\* it grows with the depth.
z_inv_near(px, zn, zf, m) ==
  [k \in DOMAIN m |-> FDiv(px.zbuf[k] - zn, zf - zn) * m[k]]

\* z_inv = (zfar - fragments.zbuf) / (zfar - znear) * mask
z_inv(px, zn, zf, m) ==
  [k \in DOMAIN m |-> FDiv(zf - px.zbuf[k], zf - zn) * m[k]]

\* Variant: slot 0 taken for the maximum (the slots assumed sorted by depth).
z_inv_max_slot0(zi) == ClampMin(zi[1], Eps)

\* Variant: the maximum of z_inv without the clamp to eps.
z_inv_max_unclamped(zi) == MaxSeq(zi)

\* z_inv_max = torch.max(z_inv, dim=-1).values[..., None].clamp(min=eps)
z_inv_max(zi) == ClampMin(MaxSeq(zi), Eps)

\* weights_num = prob_map * torch.exp((z_inv - z_inv_max) / blend_params.gamma)
weights_num(prob, zi, zmax, bp) ==
  [k \in DOMAIN prob |-> FMul(prob[k], Exp(FDiv(zi[k] - zmax, bp.gamma)))]

\* delta = torch.exp((eps - z_inv_max) / blend_params.gamma).clamp(min=eps)
delta(zmax, bp) == ClampMin(Exp(FDiv(Eps - zmax, bp.gamma)), Eps)

\* denom = weights_num.sum(dim=-1)[..., None] + delta
denom(w, dl) == SumSeq(w) + dl

\* Variant: the weights multiplied with the colors in reversed slot order.
weighted_colors_reversed(w, px) ==
  [ch \in 1..3 |->
     SumSeq([k \in DOMAIN w |-> w[k] * px.colors[Len(w) + 1 - k][ch]])]

\* weighted_colors = (weights_num[..., None] * colors).sum(dim=-2)
weighted_colors(w, px) ==
  [ch \in 1..3 |-> SumSeq([k \in DOMAIN w |-> w[k] * px.colors[k][ch]])]

\* Variant: the background added with weight 1 instead of delta.
weighted_background_unit(dl, bp) == [ch \in 1..3 |-> One * bp.background_color[ch]]

\* weighted_background = delta * background
weighted_background(dl, bp) == [ch \in 1..3 |-> dl * bp.background_color[ch]]

\* The body of softmax_rgb_blend, line by line, at one pixel:
\* pixel_colors[..., :3] = (weighted_colors + weighted_background) / denom
\* pixel_colors[..., 3] = 1.0 - alpha
SoftmaxPixel(px, bp, zn, zf) ==
  LET m == mask(px)
      prob == prob_map(px, bp, m)
      alpha == alpha_prod(prob)
      zi == z_inv(px, zn, zf, m)
      zmax == z_inv_max(zi)
      w == weights_num(prob, zi, zmax, bp)
      dl == delta(zmax, bp)
      dn == denom(w, dl)
      wc == weighted_colors(w, px)
      wb == weighted_background(dl, bp)
  IN <<(wc[1] + wb[1]) \div dn, (wc[2] + wb[2]) \div dn,
       (wc[3] + wb[3]) \div dn, One - alpha>>

softmax_rgb_blend(c, fr, bp, zn, zf) ==
  [p \in 1..NumPix(fr) |-> SoftmaxPixel(PixelAt(c, fr, p), bp, zn, zf)]

\* ------------------------------------------------------------------------
\* State machine

Red == <<One, 0, 0>>
Green == <<0, One, 0>>
Blue == <<16, 32, One>>
White == <<One, One, One>>
Grey == <<13, 19, 26>>

\* (dist, zbuf, color) of a slot, whatever its face index: inside the face
\* and near (z = 2), inside and far (z = 50), outside the face and beyond
\* zfar (z = 128).
Payloads ==
  { [dist |-> -32, zbuf |-> 128,  color |-> Red],
    [dist |-> -32, zbuf |-> 3200, color |-> Green],
    [dist |-> 16,  zbuf |-> 8192, color |-> Blue] }

FaceIdx == {-1, 0}

\* (P, K): every shape of at most MaxSlots slots, and the 2 x 2 image.
Shapes ==
  {s \in (1..MaxSlots) \X (1..MaxSlots) : s[1] * s[2] <= MaxSlots}
    \cup {<<2, 2>>}

Sigmas == {1, One}
Gammas == {1, One}
Backgrounds == {White, Grey}

\* Python's None.
None == [type |-> "NoneType"]

\* A tuple, list or tensor of the given shape.
Tensor(shape, data) == [type |-> "Tensor", shape |-> shape, data |-> data]

\* No blend call, no autograd invocation, no compositor and no rasterizer.
BlendIdle ==
  /\ colors = <<>>
  /\ fragments = <<>>
  /\ blend_params = <<>>
  /\ znear = One
  /\ zfar = 100 * One
  /\ image = <<>>
  /\ last_call = "none"

AutogradIdle ==
  /\ forward_calls = <<>>
  /\ ctx = <<>>
  /\ backward_calls = <<>>

CompositorIdle ==
  /\ compositor = <<>>
  /\ comp_call = <<>>
  /\ comp_images = <<>>
  /\ warnings = 0

RasterizerIdle ==
  /\ rasterizer = <<>>
  /\ rast_call = <<>>
  /\ rast_log = <<>>
  /\ rast_result = <<>>

Init ==
  /\ AutogradIdle
  /\ CompositorIdle
  /\ RasterizerIdle
  /\ \E s \in Shapes :
       \E f \in [1..s[1] -> [1..s[2] -> FaceIdx]] :
         \E pl \in [1..s[1] -> [1..s[2] -> Payloads]] :
           /\ fragments =
                [pix_to_face |-> f,
                 dists |-> [p \in 1..s[1] |-> [k \in 1..s[2] |-> pl[p][k].dist]],
                 zbuf |-> [p \in 1..s[1] |-> [k \in 1..s[2] |-> pl[p][k].zbuf]]]
           /\ colors = [p \in 1..s[1] |-> [k \in 1..s[2] |-> pl[p][k].color]]
  /\ blend_params \in
       [sigma : Sigmas, gamma : Gammas, background_color : Backgrounds]
  /\ znear = One
  /\ zfar = 100 * One
  /\ image = <<>>
  /\ last_call = "none"

\* Variant: the background written in place (masked_scatter_) into the view
\* colors[..., 0, :] of the argument.
HardRgbBlend_inplace ==
  /\ image' = hard_rgb_blend(colors, fragments, blend_params)
  /\ colors' =
       [p \in 1..Len(colors) |->
          [colors[p] EXCEPT
             ![1] = SubSeq(hard_rgb_blend(colors, fragments, blend_params)[p],
                           1, 3)]]
  /\ last_call' = "hard_rgb_blend"
  /\ UNCHANGED <<fragments, blend_params, znear, zfar>>
  /\ UNCHANGED <<autogradvars, compositorvars, rasterizervars>>

HardRgbBlend ==
  /\ image' = hard_rgb_blend(colors, fragments, blend_params)
  /\ last_call' = "hard_rgb_blend"
  /\ UNCHANGED <<colors, fragments, blend_params, znear, zfar>>
  /\ UNCHANGED <<autogradvars, compositorvars, rasterizervars>>

SigmoidAlphaBlend ==
  /\ image' = sigmoid_alpha_blend(colors, fragments, blend_params)
  /\ last_call' = "sigmoid_alpha_blend"
  /\ UNCHANGED <<colors, fragments, blend_params, znear, zfar>>
  /\ UNCHANGED <<autogradvars, compositorvars, rasterizervars>>

SoftmaxRgbBlend ==
  /\ image' = softmax_rgb_blend(colors, fragments, blend_params, znear, zfar)
  /\ last_call' = "softmax_rgb_blend"
  /\ UNCHANGED <<colors, fragments, blend_params, znear, zfar>>
  /\ UNCHANGED <<autogradvars, compositorvars, rasterizervars>>

Next ==
  \/ HardRgbBlend
  \/ SigmoidAlphaBlend
  \/ SoftmaxRgbBlend

Spec == Init /\ [][Next]_vars

\* ------------------------------------------------------------------------
\* Properties

Pixels == 1..Len(colors)
K == Len(colors[1])
RGB(px) == <<px[1], px[2], px[3]>>

AfterHard == last_call = "hard_rgb_blend"
AfterSigmoid == last_call = "sigmoid_alpha_blend"
AfterSoftmax == last_call = "softmax_rgb_blend"

\* C1: after hard_rgb_blend, every pixel whose slot-0 face index is
\* non-negative has the slot-0 color of that pixel as RGB, and every pixel
\* of the image has alpha 1.
C1_HardKeepsSlot0Color ==
  AfterHard =>
    /\ Len(image) = Len(colors)
    /\ \A p \in Pixels :
         /\ fragments.pix_to_face[p][1] >= 0 => RGB(image[p]) = colors[p][1]
         /\ image[p][4] = One

\* A covered pixel that follows a background pixel and whose color differs
\* from the background.
C1_Witness ==
  /\ AfterHard
  /\ \E p, q \in Pixels :
       /\ p < q
       /\ fragments.pix_to_face[p][1] < 0
       /\ fragments.pix_to_face[q][1] = 0
       /\ K >= 2
       /\ fragments.pix_to_face[q][K] < 0
       /\ colors[q][1] # blend_params.background_color

\* C2: after hard_rgb_blend, every pixel whose slot-0 face index is negative
\* is exactly background_color with alpha 1, however many such pixels there
\* are.
C2_HardBackground ==
  AfterHard =>
    \A p \in Pixels :
      fragments.pix_to_face[p][1] < 0 =>
        image[p] = blend_params.background_color \o <<One>>

\* The empty scene: at least two pixels, every slot of every pixel a
\* sentinel, and a background whose channels differ.
C2_Witness ==
  /\ AfterHard
  /\ Len(colors) >= 2
  /\ \A p \in Pixels : \A k \in 1..K : fragments.pix_to_face[p][k] < 0
  /\ blend_params.background_color = Grey

\* Background and covered pixels interleaved, a later slot real.
C2_WitnessMixed ==
  /\ AfterHard
  /\ \E p, q \in Pixels :
       /\ p < q
       /\ fragments.pix_to_face[p][1] < 0
       /\ fragments.pix_to_face[q][1] >= 0
       /\ K >= 2
       /\ fragments.pix_to_face[p][K] >= 0
\* The quantities of the softmax blend at slot k of pixel p of the current
\* input, written out from their formulas.
Slot == 1..K
Real(p, k) == fragments.pix_to_face[p][k] >= 0
AllSentinel(p) == \A k \in Slot : ~Real(p, k)

RECURSIVE SumOver(_, _)
SumOver(F(_), S) ==
  IF S = {} THEN 0
  ELSE LET x == CHOOSE y \in S : TRUE IN F(x) + SumOver(F, S \ {x})

RECURSIVE ProdOver(_, _)
ProdOver(F(_), S) ==
  IF S = {} THEN 1
  ELSE LET x == CHOOSE y \in S : TRUE IN F(x) * ProdOver(F, S \ {x})

Prob(p, k) ==
  IF Real(p, k)
  THEN Sigmoid(FDiv(-fragments.dists[p][k], blend_params.sigma))
  ELSE 0

ZInv(p, k) ==
  IF Real(p, k) THEN FDiv(zfar - fragments.zbuf[p][k], zfar - znear) ELSE 0

ZInvMax(p) ==
  CHOOSE m \in {ZInv(p, k) : k \in Slot} \cup {Eps} :
    \A n \in {ZInv(p, k) : k \in Slot} \cup {Eps} : n <= m

\* w_k and delta, given the pixel's z_inv_max.
WeightAt(p, k, zmax) ==
  FMul(Prob(p, k), Exp(FDiv(ZInv(p, k) - zmax, blend_params.gamma)))

DeltaAt(zmax) ==
  LET e == Exp(FDiv(Eps - zmax, blend_params.gamma))
  IN IF e >= Eps THEN e ELSE Eps

Weight(p, k) == WeightAt(p, k, ZInvMax(p))
Delta(p) == DeltaAt(ZInvMax(p))

\* (znear, zfar) of a call other than the defaults: 0.5 and 10, 2 and 200.
ZRanges == {<<One \div 2, 10 * One>>, <<2 * One, 200 * One>>}

\* C3: after softmax_rgb_blend, a pixel all of whose K slots are sentinels
\* is exactly background_color with alpha exactly 0, whatever sigma, gamma
\* and the dists, zbuf and colors stored at those slots; and so it is for
\* the same call with another zfar > znear.
C3_SoftmaxEmptyPixel ==
  AfterSoftmax =>
    \A p \in Pixels :
      AllSentinel(p) =>
        /\ image[p] = blend_params.background_color \o <<0>>
        /\ \A zr \in ZRanges :
             softmax_rgb_blend(colors, fragments, blend_params,
                               zr[1], zr[2])[p]
               = blend_params.background_color \o <<0>>

\* An empty pixel of K >= 2 slots whose payloads are live (a negative
\* distance, an in-range depth, a color other than the background).
C3_Witness ==
  /\ AfterSoftmax
  /\ K >= 2
  /\ \E p \in Pixels :
       /\ AllSentinel(p)
       /\ fragments.dists[p][1] < 0
       /\ fragments.zbuf[p][1] < zfar
       /\ colors[p][1] # colors[p][2]
       /\ colors[p][1] # blend_params.background_color

\* C4: after softmax_rgb_blend, the RGB of every pixel is
\* (sum_k w_k * color_k + delta * background) / (sum_k w_k + delta) with
\* w_k = prob_k * exp((z_inv_k - z_inv_max) / gamma),
\* z_inv_k = (zfar - depth_k) / (zfar - znear) * mask_k,
\* z_inv_max = max(max_k z_inv_k, eps) and
\* delta = max(exp((eps - z_inv_max) / gamma), eps); weight k multiplies
\* color k.
C4_SoftmaxRgbFormula ==
  AfterSoftmax =>
    \A p \in Pixels :
      LET zmax == ZInvMax(p)
          dl == DeltaAt(zmax)
          wsum == SumOver(LAMBDA k : WeightAt(p, k, zmax), Slot)
      IN \A ch \in 1..3 :
           image[p][ch] =
             (SumOver(LAMBDA k : WeightAt(p, k, zmax) * colors[p][k][ch], Slot)
                + dl * blend_params.background_color[ch])
               \div (wsum + dl)

\* Two real slots of different weight and color, and a background weight
\* above its floor.
C4_Witness ==
  /\ AfterSoftmax
  /\ \E p \in Pixels : \E j, k \in Slot :
       /\ Weight(p, j) > Weight(p, k)
       /\ Weight(p, k) > 0
       /\ colors[p][j] # colors[p][k]
       /\ Delta(p) > Eps
       /\ RGB(image[p]) # colors[p][j]

\* The clamps at work: real slots only beyond zfar (z_inv_max at its floor),
\* and a background weight at its floor.
C4_WitnessClamped ==
  /\ AfterSoftmax
  /\ \E p, q \in Pixels :
       /\ \E k \in Slot : Real(p, k) /\ ZInv(p, k) < 0
       /\ ZInvMax(p) = Eps
       /\ Exp(FDiv(Eps - ZInvMax(q), blend_params.gamma)) < Eps

\* C5: after softmax_rgb_blend, the alpha of a pixel is
\* 1 - prod_k (1 - prob_k), prob_k = sigmoid(-dist_k / sigma) at a real slot
\* and 0 at a sentinel slot; so a real slot with prob_k = 1 gives alpha 1
\* whatever the other slots hold.
C5_SoftmaxAlpha ==
  AfterSoftmax =>
    \A p \in Pixels :
      /\ image[p][4] =
           One - (ProdOver(LAMBDA k : One - Prob(p, k), Slot)
                    \div Pow(One, K - 1))
      /\ (\E k \in Slot : Real(p, k) /\ Prob(p, k) = One) => image[p][4] = One

\* A pixel with partial coverage from two real slots and a sentinel slot.
C5_Witness ==
  /\ AfterSoftmax
  /\ \E p \in Pixels : \E i, j, k \in Slot :
       /\ i # j
       /\ Real(p, i) /\ Real(p, j) /\ ~Real(p, k)
       /\ Prob(p, i) \in 1..(One - 1)
       /\ Prob(p, j) \in 1..(One - 1)
       /\ Prob(p, i) # Prob(p, j)
       /\ image[p][4] \in 1..(One - 1)

\* A fully covering slot beside a real slot that does not cover.
C5_WitnessCovered ==
  /\ AfterSoftmax
  /\ \E p \in Pixels : \E j, k \in Slot :
       /\ Real(p, j) /\ Prob(p, j) = One
       /\ Real(p, k) /\ Prob(p, k) = 0
       /\ j > k

\* C6: after softmax_rgb_blend, every RGB channel of every pixel lies between
\* the minimum and the maximum of that channel over the pixel's K fragment
\* colors and background_color.
C6_SoftmaxConvexHull ==
  AfterSoftmax =>
    \A p \in Pixels : \A ch \in 1..3 :
      LET vals == {colors[p][k][ch] : k \in Slot}
                    \cup {blend_params.background_color[ch]}
      IN /\ \E v \in vals : v <= image[p][ch]
         /\ \E v \in vals : image[p][ch] <= v

\* A blended channel strictly inside the hull, and one on its boundary.
C6_Witness ==
  /\ AfterSoftmax
  /\ \E p \in Pixels : \E ch \in 1..3 :
       LET vals == {colors[p][k][ch] : k \in Slot}
                     \cup {blend_params.background_color[ch]}
       IN /\ \E k \in Slot : Weight(p, k) > 0
          /\ \A v \in vals : v # image[p][ch]
          /\ \E v \in vals : v < image[p][ch]
          /\ \E v \in vals : image[p][ch] < v

\* Permutations of the K slots of one pixel of the input.
Perms == {pi \in [Slot -> Slot] : \A i, j \in Slot : i # j => pi[i] # pi[j]}
Permute(row, pi) == [k \in Slot |-> row[pi[k]]]
PermuteAt(t, p, pi) == [t EXCEPT ![p] = Permute(t[p], pi)]
PermuteFragments(p, pi) ==
  [pix_to_face |-> PermuteAt(fragments.pix_to_face, p, pi),
   dists |-> PermuteAt(fragments.dists, p, pi),
   zbuf |-> PermuteAt(fragments.zbuf, p, pi)]

\* C7: the softmax blend of a pixel is unchanged (all four channels) when
\* one permutation is applied to the K slots of its pix_to_face, dists, zbuf
\* and colors.
C7_SoftmaxPermutationInvariant ==
  AfterSoftmax =>
    \A p \in Pixels : \A pi \in Perms :
      softmax_rgb_blend(PermuteAt(colors, p, pi), PermuteFragments(p, pi),
                        blend_params, znear, zfar)[p] = image[p]

\* Three slots that differ in face, probability, depth or color, so that
\* every permutation but the identity changes the input, in a pixel whose
\* blend is a proper mixture.
C7_Witness ==
  /\ AfterSoftmax
  /\ K = 3
  /\ \E p \in Pixels :
       /\ Real(p, 1) /\ Real(p, 3) /\ ~Real(p, 2)
       /\ ZInv(p, 3) > ZInv(p, 1)
       /\ Weight(p, 1) > 0
       /\ colors[p][1] # colors[p][3]
       /\ colors[p][2] # colors[p][3]
       /\ image[p][4] \in 1..(One - 1)
\* C8, as claimed: the sigmoid-alpha blend of a pixel is unchanged in all
\* four channels when one permutation is applied to the K slots of its
\* pix_to_face, dists and colors.
C8_SigmoidPermutationInvariantRGBA ==
  AfterSigmoid =>
    \A p \in Pixels : \A pi \in Perms :
      sigmoid_alpha_blend(PermuteAt(colors, p, pi), PermuteFragments(p, pi),
                          blend_params)[p] = image[p]

\* C8, amended: under a permutation of the K slots of a pixel the alpha of
\* the sigmoid-alpha blend is unchanged, and its RGB is the color that the
\* permutation puts in slot 0.
C8_SigmoidPermutationAlphaOnly ==
  AfterSigmoid =>
    \A p \in Pixels : \A pi \in Perms :
      LET out == sigmoid_alpha_blend(PermuteAt(colors, p, pi),
                                     PermuteFragments(p, pi), blend_params)[p]
      IN /\ out[4] = image[p][4]
         /\ RGB(out) = colors[p][pi[1]]

\* Three slots of different color, two of them real with different
\* probabilities and one a sentinel, partially covering the pixel.
C8_Witness ==
  /\ AfterSigmoid
  /\ K = 3
  /\ \E p \in Pixels :
       /\ Real(p, 1) /\ ~Real(p, 2) /\ Real(p, 3)
       /\ Prob(p, 1) # Prob(p, 3)
       /\ colors[p][1] # colors[p][2]
       /\ colors[p][1] # colors[p][3]
       /\ image[p][4] \in 1..(One - 1)

\* C9: after sigmoid_alpha_blend, the alpha of a pixel is 1 minus the
\* product over its real slots of (1 - sigmoid(-dist_k / sigma)); a pixel
\* with no real slot has alpha 0.
C9_SigmoidAlpha ==
  AfterSigmoid =>
    \A p \in Pixels :
      LET real == {k \in Slot : Real(p, k)}
          n == Cardinality(real)
          prod == ProdOver(LAMBDA k : One - Prob(p, k), real)
      IN /\ image[p][4] =
              One - (IF n = 0 THEN One ELSE prod \div Pow(One, n - 1))
         /\ n = 0 => image[p][4] = 0

\* A pixel with a sentinel between two real slots of different probability,
\* beside a pixel with no real slot whose stored distances are inside.
C9_Witness ==
  /\ AfterSigmoid
  /\ \E p \in Pixels : \E i, j, k \in Slot :
       /\ i < k /\ k < j
       /\ Real(p, i) /\ Real(p, j) /\ ~Real(p, k)
       /\ Prob(p, i) # Prob(p, j)
       /\ image[p][4] \in 1..(One - 1)
       /\ blend_params.sigma # blend_params.gamma

C9_WitnessEmpty ==
  /\ AfterSigmoid
  /\ K >= 2
  /\ \E p \in Pixels :
       /\ AllSentinel(p)
       /\ \A k \in Slot : fragments.dists[p][k] < 0

\* C10: after sigmoid_alpha_blend, the RGB of every pixel is the slot-0
\* entry of the color tensor, unweighted, whatever dists, pix_to_face and
\* sigma are; they enter the fourth channel only.
C10_SigmoidRgbIsSlot0 ==
  AfterSigmoid =>
    \A p \in Pixels : RGB(image[p]) = colors[p][1]

\* A pixel whose alpha is neither 0 nor 1 and whose slot-0 color is neither
\* black nor that of its other slot; and a pixel whose slot 0 is a sentinel.
C10_Witness ==
  /\ AfterSigmoid
  /\ K >= 2
  /\ \E p, q \in Pixels :
       /\ image[p][4] \in 1..(One - 1)
       /\ colors[p][1] # colors[p][2]
       /\ ~Real(q, 1) /\ Real(q, 2)

\* ------------------------------------------------------------------------
\* _SigmoidAlphaBlend: forward and backward of the autograd function

\* The largest number of forward invocations of a run.
MaxCalls == 2

\* _C.sigmoid_alpha_blend_backward, the fused kernel: the upstream gradient
\* of alpha through the product rule of the cumulative product, scaled by
\* -1 / sigma times the logistic derivative:
\* d alpha / d dist_k = -(1 - alpha) * p_k / sigma; 0 at a sentinel slot.
C_sigmoid_alpha_blend_backward(grad_alphas, alphas, d, f, sigma) ==
  [p \in 1..Len(f) |->
     [k \in 1..Len(f[p]) |->
        IF f[p][k] < 0 THEN 0
        ELSE -FDiv(FMul(FMul(grad_alphas[p], Sigmoid(FDiv(-d[p][k], sigma))),
                        One - alphas[p]), sigma)]]

\* The arguments of an invocation: one pixel of two slots.
AutogradDists == {<<<<-32, 16>>>>, <<<<16, 0>>>>}
AutogradFaces == {<<<<0, 0>>>>, <<<<0, -1>>>>}
GradAlphas == {<<One>>, <<One \div 2>>}

\* Variant: one ctx shared by every invocation (state kept on the class).
apply_ctx_shared(id) == 1

\* _SigmoidAlphaBlend.apply: the ctx object handed to the forward of
\* invocation id and, later, to its backward; a new one per invocation.
apply_ctx(id) == id

\* A ctx nothing was saved on.
EmptyCtx == [saved_tensors |-> <<>>, sigma |-> 0]

\* ctx.save_for_backward(dists, pix_to_face, alphas); ctx.sigma = sigma
SaveForBackward(c, d, f, alphas, sigma) ==
  [ctx EXCEPT ![c] = [saved_tensors |-> <<d, f, alphas>>, sigma |-> sigma]]

InitAutograd ==
  /\ BlendIdle
  /\ CompositorIdle
  /\ RasterizerIdle
  /\ forward_calls = <<>>
  /\ ctx = [c \in 1..MaxCalls |-> EmptyCtx]
  /\ backward_calls = [id \in 1..MaxCalls |-> <<>>]

\* _sigmoid_alpha(dists, pix_to_face, sigma): a new invocation.
Forward ==
  /\ Len(forward_calls) < MaxCalls
  /\ \E d \in AutogradDists : \E f \in AutogradFaces : \E sigma \in Sigmas :
       LET id == Len(forward_calls) + 1
           alphas == C_sigmoid_alpha_blend(d, f, sigma)
       IN /\ ctx' = SaveForBackward(apply_ctx(id), d, f, alphas, sigma)
          /\ forward_calls' =
               Append(forward_calls,
                      [dists |-> d, pix_to_face |-> f, sigma |-> sigma,
                       alphas |-> alphas])
  /\ UNCHANGED backward_calls
  /\ UNCHANGED <<blendvars, compositorvars, rasterizervars>>

\* Variant: the gradient is returned in the position of sigma.
Backward_sigma ==
  /\ \E id \in 1..Len(forward_calls) : \E grad_alphas \in GradAlphas :
       /\ backward_calls[id] = <<>>
       /\ LET c == ctx[apply_ctx(id)]
              d == c.saved_tensors[1]
              f == c.saved_tensors[2]
              alphas == c.saved_tensors[3]
              sigma == c.sigma
              grad_dists ==
                C_sigmoid_alpha_blend_backward(grad_alphas, alphas, d, f, sigma)
          IN backward_calls' =
               [backward_calls EXCEPT ![id] =
                  <<[kernel_args |-> <<grad_alphas, alphas, d, f, sigma>>,
                     returned |->
                       <<None, None,
                         Tensor(<<Len(d), Len(d[1])>>, grad_dists)>>]>>]
  /\ UNCHANGED <<forward_calls, ctx>>
  /\ UNCHANGED <<blendvars, compositorvars, rasterizervars>>

\* The backward of invocation id, run by autograd with that invocation's
\* ctx, once, at any time after its forward; backward_calls[id] holds the
\* kernel call it made and what it returned.
Backward ==
  /\ \E id \in 1..Len(forward_calls) : \E grad_alphas \in GradAlphas :
       /\ backward_calls[id] = <<>>
       /\ LET c == ctx[apply_ctx(id)]
              d == c.saved_tensors[1]
              f == c.saved_tensors[2]
              alphas == c.saved_tensors[3]
              sigma == c.sigma
              grad_dists ==
                C_sigmoid_alpha_blend_backward(grad_alphas, alphas, d, f, sigma)
          IN backward_calls' =
               [backward_calls EXCEPT ![id] =
                  <<[kernel_args |-> <<grad_alphas, alphas, d, f, sigma>>,
                     returned |->
                       <<Tensor(<<Len(d), Len(d[1])>>, grad_dists),
                         None, None>>]>>]
  /\ UNCHANGED <<forward_calls, ctx>>
  /\ UNCHANGED <<blendvars, compositorvars, rasterizervars>>

NextAutograd ==
  \/ Forward
  \/ Backward

SpecAutograd == InitAutograd /\ [][NextAutograd]_vars

Invocations == 1..Len(forward_calls)
BackwardDone(id) == backward_calls[id] # <<>>
KernelArgs(id) == backward_calls[id][1].kernel_args

\* C11: whatever the interleaving of forward and backward invocations, the
\* backward of an invocation passes to the backward kernel the alphas its
\* own forward returned and the dists, pix_to_face and sigma its own forward
\* received, and until then the ctx of the invocation holds exactly these
\* values: no other invocation overwrites them.
C11_BackwardUsesOwnForward ==
  \A id \in Invocations :
    LET fwd == forward_calls[id]
    IN IF BackwardDone(id)
       THEN \E g \in GradAlphas :
              KernelArgs(id) =
                <<g, fwd.alphas, fwd.dists, fwd.pix_to_face, fwd.sigma>>
       ELSE ctx[id] =
              [saved_tensors |-> <<fwd.dists, fwd.pix_to_face, fwd.alphas>>,
               sigma |-> fwd.sigma]

\* Two invocations that differ in every argument and in alphas; the second
\* has run backward while the first is still waiting for its own.
C11_Witness ==
  /\ Len(forward_calls) >= 2
  /\ forward_calls[1].dists # forward_calls[2].dists
  /\ forward_calls[1].pix_to_face # forward_calls[2].pix_to_face
  /\ forward_calls[1].sigma # forward_calls[2].sigma
  /\ forward_calls[1].alphas # forward_calls[2].alphas
  /\ BackwardDone(2)
  /\ ~BackwardDone(1)

\* Both backward passes have run, on different saved values.
C11_WitnessBoth ==
  /\ Len(forward_calls) >= 2
  /\ BackwardDone(1)
  /\ BackwardDone(2)
  /\ KernelArgs(1)[2] # KernelArgs(2)[2]
  /\ KernelArgs(1)[5] # KernelArgs(2)[5]

\* ------------------------------------------------------------------------
\* Numerical guards of softmax_rgb_blend

\* The arguments of the two torch.exp calls at pixel p (lines 193, 199).
ExpArgs(px, bp, zn, zf) ==
  LET m == mask(px)
      zi == z_inv(px, zn, zf, m)
      zmax == z_inv_max(zi)
  IN {FDiv(zi[k] - zmax, bp.gamma) : k \in DOMAIN zi}
       \cup {FDiv(Eps - zmax, bp.gamma)}

\* C12: in softmax_rgb_blend, at every pixel (a pixel with no real slot
\* included), z_inv_max >= eps, the arguments (z_inv_k - z_inv_max) / gamma
\* and (eps - z_inv_max) / gamma of exp are <= 0 (so exp is at most 1),
\* delta >= eps and denom >= eps > 0: no division by zero, no exp of a
\* positive number, and every channel of the output is a finite number.
C12_SoftmaxGuards ==
  AfterSoftmax =>
    \A p \in Pixels :
      LET px == PixelAt(colors, fragments, p)
          m == mask(px)
          prob == prob_map(px, blend_params, m)
          zi == z_inv(px, znear, zfar, m)
          zmax == z_inv_max(zi)
          w == weights_num(prob, zi, zmax, blend_params)
          dl == delta(zmax, blend_params)
          dn == denom(w, dl)
      IN /\ Eps > 0
         /\ zmax >= Eps
         /\ \A k \in Slot : zi[k] - zmax <= 0
         /\ \A a \in ExpArgs(px, blend_params, znear, zfar) :
              a <= 0 /\ Exp(a) <= One
         /\ dl >= Eps
         /\ dn >= Eps
         /\ \A ch \in 1..4 : image[p][ch] \in 0..One

\* A pixel with no real slot (z_inv is 0 everywhere, the clamp decides), next
\* to no other or to any other pixel.
C12_Witness ==
  /\ AfterSoftmax
  /\ \E p \in Pixels : AllSentinel(p)

\* A pixel whose only real slots lie beyond zfar: z_inv is negative there
\* and the clamp, not the maximum, gives z_inv_max.
C12_WitnessBeyondFar ==
  /\ AfterSoftmax
  /\ \E p \in Pixels :
       /\ \A k \in Slot : Real(p, k) /\ fragments.zbuf[p][k] > zfar

\* ------------------------------------------------------------------------
\* Point compositors (renderer/points/compositor.py)
\*
\* pix_idxs has shape (N, points_per_pixel, H, W) and images (N, C, H, W);
\* with H and W flattened into pixels 1..HW, pix_idxs[n][k][p] and
\* images[n][c][p].

\* The largest number of pixels (N times H times W) of a compositor call.
MaxPixels == 2


\* Background colors: RGB, RGBA, five values, and a 2-d tensor of RGB.
BackgroundColors ==
  { Tensor(<<3>>, <<13, 19, 26>>),
    Tensor(<<4>>, <<13, 19, 26, 32>>),
    Tensor(<<5>>, <<13, 19, 26, 32, 45>>),
    Tensor(<<1, 3>>, <<13, 19, 26>>) }

\* The point indices of a pixel, sorted in z-order: two points, one, none.
PointColumns == {<<0, 1>>, <<0, -1>>, <<-1, -1>>}

\* Accumulated features of a pixel (the first C of them).
FeatureVectors == {<<10, 20, 30, 40>>, <<50, 60, 7, One>>}

Channels == {3, 4}

\* (N, HW)
CompositorShapes ==
  {s \in (1..MaxPixels) \X (1..MaxPixels) : s[1] * s[2] <= MaxPixels}

\* Variant: the keyword argument only, without the default.
KwargsGet_nodefault(kwargs, key, default) ==
  IF key \in DOMAIN kwargs THEN kwargs[key] ELSE None

\* kwargs.get(key, default)
KwargsGet(kwargs, key, default) ==
  IF key \in DOMAIN kwargs THEN kwargs[key] ELSE default

\* alpha_composite(fragments, alphas, ptclds) and
\* norm_weighted_sum(fragments, alphas, ptclds): the reduction primitives, of
\* which only the accumulated image they return for the call is known.
alpha_composite(call) == call.accumulated
norm_weighted_sum(call) == call.accumulated

\* images.shape[1]
NumChannels(images) == Len(images[1])

\* images.permute(0, 2, 3, 1): (N, C, HW) to (N, HW, C)
Permute0231(images) ==
  [n \in DOMAIN images |->
     [p \in DOMAIN images[n][1] |->
        [c \in DOMAIN images[n] |-> images[n][c][p]]]]

\* t.permute(0, 3, 1, 2): (N, HW, C) back to (N, C, HW)
Permute0312(t) ==
  [n \in DOMAIN t |->
     [c \in DOMAIN t[n][1] |-> [p \in DOMAIN t[n] |-> t[n][p][c]]]]

\* t[..., :4]
First4(t) ==
  [n \in DOMAIN t |-> [p \in DOMAIN t[n] |-> SubSeq(t[n][p], 1, 4)]]

\* The rows of a flat (N * HW, C) tensor regrouped as (N, HW, C).
Regroup(rows, N, HW) ==
  [n \in 1..N |-> [p \in 1..HW |-> rows[(n - 1) * HW + p]]]

\* Variant: point index 0 counts as no point.
background_mask_le(pix_idxs) ==
  [n \in DOMAIN pix_idxs |->
     [p \in DOMAIN pix_idxs[n][1] |-> pix_idxs[n][1][p] <= 0]]

\* pix_idxs[:, 0] < 0
background_mask(pix_idxs) ==
  [n \in DOMAIN pix_idxs |->
     [p \in DOMAIN pix_idxs[n][1] |-> pix_idxs[n][1][p] < 0]]

\* Variant: only the number of dimensions of the background is checked.
bad_background_shape_rank(background_shape) == Len(background_shape) # 1

\* len(background_shape) != 1 or background_shape[0] not in (3, 4)
bad_background_shape(background_shape) ==
  \/ Len(background_shape) # 1
  \/ background_shape[1] \notin {3, 4}

\* _add_background_color_to_images: the returned images and the number of
\* warnings emitted.
add_background_color_to_images(pix_idxs, images, background_color) ==
  LET bmask == Flatten(background_mask(pix_idxs))
      background_shape == background_color.shape
  IN IF bad_background_shape(background_shape)
     THEN [images |-> images, warnings |-> 1]
     ELSE LET bg == IF background_shape[1] = 3
                    THEN background_color.data \o <<One>>
                    ELSE background_color.data
              num == Cardinality({i \in DOMAIN bmask : bmask[i]})
              masked_images ==
                Unflatten(
                  MaskedScatter(Flatten(Flatten(First4(Permute0231(images)))),
                                BroadcastMask(bmask, 4),
                                Expand(bg, num)),
                  4)
          IN [images |->
                Permute0312(Regroup(masked_images, Len(images),
                                    Len(images[1][1]))),
              warnings |-> 0]

\* AlphaCompositor.forward
AlphaCompositor_forward(self, call) ==
  LET background_color ==
        KwargsGet(call.kwargs, "background_color", self.background_color)
      images == alpha_composite(call)
  IN IF background_color # None /\ NumChannels(images) = 4
     THEN add_background_color_to_images(call.fragments, images,
                                         background_color)
     ELSE [images |-> images, warnings |-> 0]

\* NormWeightedCompositor.forward
NormWeightedCompositor_forward(self, call) ==
  LET background_color ==
        KwargsGet(call.kwargs, "background_color", self.background_color)
      images == norm_weighted_sum(call)
  IN IF background_color # None /\ NumChannels(images) = 4
     THEN add_background_color_to_images(call.fragments, images,
                                         background_color)
     ELSE [images |-> images, warnings |-> 0]

\* A compositor built with or without a background color, and the arguments
\* of one call of it, with or without the keyword argument.
InitCompositor ==
  /\ BlendIdle
  /\ AutogradIdle
  /\ RasterizerIdle
  /\ \E class \in {"AlphaCompositor", "NormWeightedCompositor"} :
       \E b \in BackgroundColors \cup {None} :
         compositor = [class |-> class, background_color |-> b]
  /\ \E s \in CompositorShapes : \E C \in Channels :
       \E cols \in [1..s[1] -> [1..s[2] -> PointColumns]] :
         \E feats \in [1..s[1] -> [1..s[2] -> FeatureVectors]] :
           \E kwargs \in
                {<<>>} \cup
                  {[background_color |-> b] : b \in BackgroundColors \cup {None}} :
             comp_call =
               [fragments |->
                  [n \in 1..s[1] |->
                     [k \in 1..2 |-> [p \in 1..s[2] |-> cols[n][p][k]]]],
                accumulated |->
                  [n \in 1..s[1] |->
                     [c \in 1..C |-> [p \in 1..s[2] |-> feats[n][p][c]]]],
                kwargs |-> kwargs]
  /\ comp_images = <<>>
  /\ warnings = 0

AlphaCompositorForward ==
  /\ compositor.class = "AlphaCompositor"
  /\ comp_images = <<>>
  /\ LET r == AlphaCompositor_forward(compositor, comp_call)
     IN /\ comp_images' = r.images
        /\ warnings' = warnings + r.warnings
  /\ UNCHANGED <<compositor, comp_call>>
  /\ UNCHANGED <<blendvars, autogradvars, rasterizervars>>

NormWeightedCompositorForward ==
  /\ compositor.class = "NormWeightedCompositor"
  /\ comp_images = <<>>
  /\ LET r == NormWeightedCompositor_forward(compositor, comp_call)
     IN /\ comp_images' = r.images
        /\ warnings' = warnings + r.warnings
  /\ UNCHANGED <<compositor, comp_call>>
  /\ UNCHANGED <<blendvars, autogradvars, rasterizervars>>

NextCompositor ==
  \/ AlphaCompositorForward
  \/ NormWeightedCompositorForward

SpecCompositor == InitCompositor /\ [][NextCompositor]_vars

CompositorReturned == comp_images # <<>>

\* The background color the call asks for: the keyword argument when there
\* is one, the compositor's own otherwise.
RequestedBackground ==
  IF "background_color" \in DOMAIN comp_call.kwargs
  THEN comp_call.kwargs.background_color
  ELSE compositor.background_color

BackgroundRequested == RequestedBackground # None
ValidLength(b) == b.shape \in {<<3>>, <<4>>}
AccumulatedChannels == Len(comp_call.accumulated[1])
Batch == DOMAIN comp_call.fragments
ImagePixels == DOMAIN comp_call.fragments[1][1]
SentinelPixel(n, p) == comp_call.fragments[n][1][p] < 0
Features(images, n, p) == [c \in DOMAIN images[n] |-> images[n][c][p]]

\* The color as RGBA: its first four values, alpha 1 when it has three.
RGBAOf(b) ==
  IF Len(b.data) = 3 THEN b.data \o <<One>> ELSE SubSeq(b.data, 1, 4)

\* C13 as stated: after AlphaCompositor.forward or
\* NormWeightedCompositor.forward, when a background color is requested and
\* the accumulated image has 4 channels, every pixel whose first slot is a
\* sentinel has the background color; otherwise the accumulated image is
\* returned unchanged.
C13_BackgroundWheneverRequested ==
  CompositorReturned =>
    IF BackgroundRequested /\ AccumulatedChannels = 4
    THEN \A n \in Batch : \A p \in ImagePixels :
           SentinelPixel(n, p) =>
             Features(comp_images, n, p) = RGBAOf(RequestedBackground)
    ELSE comp_images = comp_call.accumulated

\* C13, amended: after AlphaCompositor.forward or
\* NormWeightedCompositor.forward, when a background color of 3 or 4 values
\* is requested and the accumulated image has 4 channels, every pixel whose
\* first slot is a sentinel has the background color (alpha 1 when the color
\* has 3 values); when no background color is requested or the image does
\* not have 4 channels, the accumulated image is returned unchanged.
C13_BackgroundOfValidLength ==
  CompositorReturned =>
    /\ (BackgroundRequested /\ ValidLength(RequestedBackground)
          /\ AccumulatedChannels = 4) =>
         \A n \in Batch : \A p \in ImagePixels :
           SentinelPixel(n, p) =>
             Features(comp_images, n, p) = RGBAOf(RequestedBackground)
    /\ (~BackgroundRequested \/ AccumulatedChannels # 4) =>
         comp_images = comp_call.accumulated

\* A background of 3 values given by keyword to a compositor built with
\* another one, on a 4-channel image with a pixel without points and a pixel
\* with points.
C13_Witness ==
  /\ CompositorReturned
  /\ "background_color" \in DOMAIN comp_call.kwargs
  /\ BackgroundRequested
  /\ RequestedBackground.shape = <<3>>
  /\ compositor.background_color # None
  /\ compositor.background_color # RequestedBackground
  /\ AccumulatedChannels = 4
  /\ \E n \in Batch : \E p, q \in ImagePixels :
       /\ SentinelPixel(n, p)
       /\ ~SentinelPixel(n, q)
       /\ Features(comp_images, n, p) # Features(comp_call.accumulated, n, p)

\* The compositor's own background, but a 3-channel image with a pixel
\* without points: returned as accumulated.
C13_WitnessUnchanged ==
  /\ CompositorReturned
  /\ comp_call.kwargs = <<>>
  /\ BackgroundRequested
  /\ ValidLength(RequestedBackground)
  /\ AccumulatedChannels = 3
  /\ \E n \in Batch : \E p \in ImagePixels : SentinelPixel(n, p)

MaxMeshes == 2

Bool(b) == [type |-> "bool", value |-> b]

\* A batch of n cameras of focal length f; camera i is translated by
\* (i, 0, 2) from the world origin.
Cameras(n, f) == [type |-> "Cameras", n |-> n, f |-> f]
CameraBatches == {Cameras(n, 2) : n \in 1..(MaxMeshes + 1)}

\* len(cameras)
LenCameras(cameras) == cameras.n

\* Vertices in world space; a mesh has one (padded) vertex.
Points == {<<1, 2, 3>>, <<-2, 4, 5>>}
Meshes(verts) == [type |-> "Meshes", verts |-> verts]
MeshBatches ==
  UNION {{Meshes(v) : v \in [1..n -> [1..1 -> Points]]} : n \in 1..MaxMeshes}

\* len(meshes_world)
LenMeshes(meshes) == Len(meshes.verts)

\* meshes.verts_padded()
verts_padded(meshes) == meshes.verts

\* meshes.update_padded(new_verts_padded=...)
update_padded(meshes, new_verts_padded) == Meshes(new_verts_padded)

\* The camera of mesh i: a single camera is shared by the batch.
CameraIndex(cameras, i) == IF cameras.n = 1 THEN 1 ELSE i

\* cameras.get_world_to_view_transform().transform_points(points)
world_to_view(cameras, points) ==
  [i \in DOMAIN points |->
     [j \in DOMAIN points[i] |->
        LET v == points[i][j]
        IN <<v[1] + CameraIndex(cameras, i), v[2], v[3] + 2>>]]

\* cameras.get_projection_transform().transform_points(points)
projection(cameras, points) ==
  [i \in DOMAIN points |->
     [j \in DOMAIN points[i] |->
        LET v == points[i][j]
        IN <<(cameras.f * One * v[1]) \div v[3],
             (cameras.f * One * v[2]) \div v[3],
             One \div v[3]>>]]

\* Variant: the projected z is kept.
SetZ_keep(verts_screen, verts_view) == verts_screen

\* verts_screen[..., 2] = verts_view[..., 2]
SetZ(verts_screen, verts_view) ==
  [i \in DOMAIN verts_screen |->
     [j \in DOMAIN verts_screen[i] |->
        <<verts_screen[i][j][1], verts_screen[i][j][2], verts_view[i][j][3]>>]]

\* RasterizationSettings(blur_radius=..., clip_barycentric_coords=...), the
\* other fields at their defaults.
RasterizationSettings(blur_radius, clip_barycentric_coords) ==
  [type |-> "RasterizationSettings",
   image_size |-> 256,
   blur_radius |-> blur_radius,
   faces_per_pixel |-> 1,
   bin_size |-> None,
   max_faces_per_bin |-> None,
   perspective_correct |-> Bool(FALSE),
   clip_barycentric_coords |-> clip_barycentric_coords,
   cull_backfaces |-> Bool(FALSE)]

BlurRadii == {0, One \div 2}
Settings ==
  {RasterizationSettings(b, c) :
     b \in BlurRadii, c \in {None, Bool(TRUE), Bool(FALSE)}}

\* Variant: the number of cameras is checked after the vertices were
\* transformed.
MeshRasterizer_transform_latecheck(self, meshes_world, kwargs) ==
  LET cameras == KwargsGet(kwargs, "cameras", self.cameras)
  IN IF cameras = None
     THEN [raised |-> "ValueError", returned |-> None, log |-> <<>>]
     ELSE LET n_cameras == LenCameras(cameras)
              verts_world == verts_padded(meshes_world)
              verts_view == world_to_view(cameras, verts_world)
              verts_screen ==
                SetZ(projection(cameras, verts_view), verts_view)
              log ==
                <<[call |-> "verts_padded"],
                  [call |-> "world_to_view", points |-> verts_world],
                  [call |-> "projection", points |-> verts_view],
                  [call |-> "update_padded",
                   new_verts_padded |-> verts_screen]>>
          IN IF n_cameras # 1 /\ n_cameras # LenMeshes(meshes_world)
             THEN [raised |-> "ValueError", returned |-> None, log |-> log]
             ELSE [raised |-> "",
                   returned |-> update_padded(meshes_world, verts_screen),
                   log |-> log]

\* Variant: without the test for missing cameras, len(cameras) raising
\* TypeError on None.
MeshRasterizer_transform_nocheck(self, meshes_world, kwargs) ==
  LET cameras == KwargsGet(kwargs, "cameras", self.cameras)
  IN IF cameras = None
     THEN [raised |-> "TypeError", returned |-> None, log |-> <<>>]
     ELSE LET n_cameras == LenCameras(cameras)
          IN IF n_cameras # 1 /\ n_cameras # LenMeshes(meshes_world)
             THEN [raised |-> "ValueError", returned |-> None, log |-> <<>>]
             ELSE LET verts_world == verts_padded(meshes_world)
                      verts_view == world_to_view(cameras, verts_world)
                      verts_screen ==
                        SetZ(projection(cameras, verts_view), verts_view)
                  IN [raised |-> "",
                      returned |-> update_padded(meshes_world, verts_screen),
                      log |->
                        <<[call |-> "verts_padded"],
                          [call |-> "world_to_view", points |-> verts_world],
                          [call |-> "projection", points |-> verts_view],
                          [call |-> "update_padded",
                           new_verts_padded |-> verts_screen]>>]

\* MeshRasterizer.transform: the exception raised ("" for none), the
\* returned meshes, and the calls made, in order.
MeshRasterizer_transform(self, meshes_world, kwargs) ==
  LET cameras == KwargsGet(kwargs, "cameras", self.cameras)
  IN IF cameras = None
     THEN [raised |-> "ValueError", returned |-> None, log |-> <<>>]
     ELSE LET n_cameras == LenCameras(cameras)
          IN IF n_cameras # 1 /\ n_cameras # LenMeshes(meshes_world)
             THEN [raised |-> "ValueError", returned |-> None, log |-> <<>>]
             ELSE LET verts_world == verts_padded(meshes_world)
                      verts_view == world_to_view(cameras, verts_world)
                      verts_screen ==
                        SetZ(projection(cameras, verts_view), verts_view)
                  IN [raised |-> "",
                      returned |-> update_padded(meshes_world, verts_screen),
                      log |->
                        <<[call |-> "verts_padded"],
                          [call |-> "world_to_view", points |-> verts_world],
                          [call |-> "projection", points |-> verts_view],
                          [call |-> "update_padded",
                           new_verts_padded |-> verts_screen]>>]

\* Variant: the default written blur_radius >= 0.
clip_barycentric_coords_ge(raster_settings) ==
  IF raster_settings.clip_barycentric_coords = None
  THEN Bool(raster_settings.blur_radius >= 0)
  ELSE raster_settings.clip_barycentric_coords

\* clip_barycentric_coords = raster_settings.clip_barycentric_coords
\* if clip_barycentric_coords is None:
\*     clip_barycentric_coords = raster_settings.blur_radius > 0.0
clip_barycentric_coords(raster_settings) ==
  IF raster_settings.clip_barycentric_coords = None
  THEN Bool(raster_settings.blur_radius > 0)
  ELSE raster_settings.clip_barycentric_coords

\* rasterize_meshes(meshes_screen, image_size=..., ...): the call made on
\* the primitive, and the Fragments built from what it returns.
rasterize_meshes(meshes_screen, raster_settings) ==
  [call |-> "rasterize_meshes",
   meshes |-> meshes_screen,
   image_size |-> raster_settings.image_size,
   blur_radius |-> raster_settings.blur_radius,
   faces_per_pixel |-> raster_settings.faces_per_pixel,
   bin_size |-> raster_settings.bin_size,
   max_faces_per_bin |-> raster_settings.max_faces_per_bin,
   perspective_correct |-> raster_settings.perspective_correct,
   clip_barycentric_coords |-> clip_barycentric_coords(raster_settings),
   cull_backfaces |-> raster_settings.cull_backfaces]

Fragments(rasterized) == [type |-> "Fragments", of |-> rasterized]

\* MeshRasterizer.forward
MeshRasterizer_forward(self, meshes_world, kwargs) ==
  LET t == MeshRasterizer_transform(self, meshes_world, kwargs)
  IN IF t.raised # ""
     THEN t
     ELSE LET raster_settings ==
                KwargsGet(kwargs, "raster_settings", self.raster_settings)
              rasterized == rasterize_meshes(t.returned, raster_settings)
          IN [raised |-> "",
              returned |-> Fragments(rasterized),
              log |-> Append(t.log, rasterized)]

\* The keyword arguments of a call: none, cameras, raster_settings, both.
RasterizerKwargs ==
  {<<>>}
    \cup {[cameras |-> c] : c \in CameraBatches \cup {None}}
    \cup {[raster_settings |-> s] : s \in Settings}
    \cup {[cameras |-> c, raster_settings |-> s] :
            c \in CameraBatches \cup {None}, s \in Settings}

\* MeshRasterizer(cameras=..., raster_settings=...) and the arguments of one
\* call of transform or forward.
InitRasterizer ==
  /\ BlendIdle
  /\ AutogradIdle
  /\ CompositorIdle
  /\ \E c \in CameraBatches \cup {None} : \E s \in Settings :
       rasterizer = [cameras |-> c, raster_settings |-> s]
  /\ \E m \in MeshBatches : \E kwargs \in RasterizerKwargs :
       rast_call = [meshes_world |-> m, kwargs |-> kwargs]
  /\ rast_log = <<>>
  /\ rast_result = <<>>

MeshRasterizerTransform ==
  /\ rast_result = <<>>
  /\ LET r == MeshRasterizer_transform(rasterizer, rast_call.meshes_world,
                                       rast_call.kwargs)
     IN /\ rast_log' = r.log
        /\ rast_result' =
             [method |-> "transform", raised |-> r.raised,
              returned |-> r.returned]
  /\ UNCHANGED <<rasterizer, rast_call>>
  /\ UNCHANGED <<blendvars, autogradvars, compositorvars>>

\* Variant: the objects resolved for the call are stored on the rasterizer
\* (self.cameras = cameras; self.raster_settings = raster_settings).
MeshRasterizerForward_store ==
  /\ rast_result = <<>>
  /\ LET r == MeshRasterizer_forward(rasterizer, rast_call.meshes_world,
                                     rast_call.kwargs)
     IN /\ rast_log' = r.log
        /\ rast_result' =
             [method |-> "forward", raised |-> r.raised,
              returned |-> r.returned]
  /\ rasterizer' =
       [cameras |->
          KwargsGet(rast_call.kwargs, "cameras", rasterizer.cameras),
        raster_settings |->
          KwargsGet(rast_call.kwargs, "raster_settings",
                    rasterizer.raster_settings)]
  /\ UNCHANGED rast_call
  /\ UNCHANGED <<blendvars, autogradvars, compositorvars>>

MeshRasterizerForward ==
  /\ rast_result = <<>>
  /\ LET r == MeshRasterizer_forward(rasterizer, rast_call.meshes_world,
                                     rast_call.kwargs)
     IN /\ rast_log' = r.log
        /\ rast_result' =
             [method |-> "forward", raised |-> r.raised,
              returned |-> r.returned]
  /\ UNCHANGED <<rasterizer, rast_call>>
  /\ UNCHANGED <<blendvars, autogradvars, compositorvars>>

\* A later call of the same rasterizer, with other arguments.
MeshRasterizerNextCall ==
  /\ rast_result # <<>>
  /\ \E m \in MeshBatches : \E kwargs \in RasterizerKwargs :
       rast_call' = [meshes_world |-> m, kwargs |-> kwargs]
  /\ rast_log' = <<>>
  /\ rast_result' = <<>>
  /\ UNCHANGED rasterizer
  /\ UNCHANGED <<blendvars, autogradvars, compositorvars>>

NextRasterizer ==
  \/ MeshRasterizerTransform
  \/ MeshRasterizerForward
  \/ MeshRasterizerNextCall

SpecRasterizer == InitRasterizer /\ [][NextRasterizer]_vars

RasterizerCalled == rast_result # <<>>
RasterizerReturned == RasterizerCalled /\ rast_result.raised = ""

\* The cameras and the settings of the call: the keyword argument when there
\* is one, the rasterizer's own otherwise.
CallCameras ==
  IF "cameras" \in DOMAIN rast_call.kwargs
  THEN rast_call.kwargs.cameras
  ELSE rasterizer.cameras

CallSettings ==
  IF "raster_settings" \in DOMAIN rast_call.kwargs
  THEN rast_call.kwargs.raster_settings
  ELSE rasterizer.raster_settings

NumMeshes == Len(rast_call.meshes_world.verts)

CameraMismatch ==
  /\ CallCameras # None
  /\ CallCameras.n # 1
  /\ CallCameras.n # NumMeshes

Logged(name) == \E i \in DOMAIN rast_log : rast_log[i].call = name

\* C15: when the number of cameras is not 1 and is not the number of
\* meshes, transform and forward raise ValueError without having read
\* verts_padded, applied a camera transform, updated the meshes or invoked
\* the rasterization primitive.
C15_MismatchRaisesBeforeWork ==
  (RasterizerCalled /\ CameraMismatch) =>
    /\ rast_result.raised = "ValueError"
    /\ ~Logged("verts_padded")
    /\ ~Logged("world_to_view")
    /\ ~Logged("projection")
    /\ ~Logged("update_padded")
    /\ ~Logged("rasterize_meshes")

\* forward called with a batch of cameras given by keyword that is larger
\* than the batch of meshes, on a rasterizer whose own cameras would fit.
C15_Witness ==
  /\ RasterizerCalled
  /\ rast_result.method = "forward"
  /\ CameraMismatch
  /\ "cameras" \in DOMAIN rast_call.kwargs
  /\ rasterizer.cameras # None
  /\ rasterizer.cameras.n = 1

\* transform called with fewer cameras than meshes, but more than one.
C15_WitnessTransform ==
  /\ RasterizerCalled
  /\ rast_result.method = "transform"
  /\ CameraMismatch
  /\ CallCameras.n > 1

RasterizeCalls ==
  {i \in DOMAIN rast_log : rast_log[i].call = "rasterize_meshes"}

\* C16: forward passes to the rasterization primitive, as
\* clip_barycentric_coords, (blur_radius > 0) when the setting is None and
\* the setting itself when it is True or False, whatever blur_radius; the
\* settings are those of the call.
C16_ClipBarycentricCoords ==
  (RasterizerReturned /\ rast_result.method = "forward") =>
    /\ Cardinality(RasterizeCalls) = 1
    /\ \A i \in RasterizeCalls :
         rast_log[i].clip_barycentric_coords =
           (IF CallSettings.clip_barycentric_coords = None
            THEN Bool(CallSettings.blur_radius > 0)
            ELSE CallSettings.clip_barycentric_coords)

\* The setting left at None with no blur: the primitive gets False.
C16_Witness ==
  /\ RasterizerReturned
  /\ rast_result.method = "forward"
  /\ CallSettings.clip_barycentric_coords = None
  /\ CallSettings.blur_radius = 0
  /\ \E i \in RasterizeCalls :
       rast_log[i].clip_barycentric_coords = Bool(FALSE)

\* The setting False with a positive blur, and True with no blur.
C16_WitnessExplicit ==
  /\ RasterizerReturned
  /\ rast_result.method = "forward"
  /\ \/ /\ CallSettings.clip_barycentric_coords = Bool(FALSE)
        /\ CallSettings.blur_radius > 0
     \/ /\ CallSettings.clip_barycentric_coords = Bool(TRUE)
        /\ CallSettings.blur_radius = 0

\* The setting left at None with a positive blur: the primitive gets True.
C16_WitnessBlur ==
  /\ RasterizerReturned
  /\ rast_result.method = "forward"
  /\ CallSettings.clip_barycentric_coords = None
  /\ CallSettings.blur_radius > 0
  /\ \E i \in RasterizeCalls :
       rast_log[i].clip_barycentric_coords = Bool(TRUE)

\* The meshes transform built: what it returns, what forward rasterizes.
MeshesScreen ==
  IF rast_result.method = "transform"
  THEN rast_result.returned
  ELSE rast_log[5].meshes

\* C20: in transform, the world-to-view transform is applied first, to the
\* padded world vertices of the meshes, the projection next, to the result
\* of the first, and the meshes handed on have the x and y of the projected
\* vertices and the z of the view-space vertices.
C20_TransformSequence ==
  RasterizerReturned =>
    LET verts_world == rast_call.meshes_world.verts
        verts_view == world_to_view(CallCameras, verts_world)
        verts_proj == projection(CallCameras, verts_view)
    IN /\ Len(rast_log) >= 4
       /\ rast_log[1].call = "verts_padded"
       /\ rast_log[2] = [call |-> "world_to_view", points |-> verts_world]
       /\ rast_log[3] = [call |-> "projection", points |-> verts_view]
       /\ rast_log[4].call = "update_padded"
       /\ MeshesScreen.verts = rast_log[4].new_verts_padded
       /\ DOMAIN MeshesScreen.verts = DOMAIN verts_world
       /\ \A i \in DOMAIN verts_world : \A j \in DOMAIN verts_world[i] :
            MeshesScreen.verts[i][j] =
              <<verts_proj[i][j][1], verts_proj[i][j][2], verts_view[i][j][3]>>

\* transform on two meshes with a camera each: the projected z differs from
\* the view-space z that is returned.
C20_Witness ==
  /\ RasterizerReturned
  /\ rast_result.method = "transform"
  /\ NumMeshes = 2
  /\ CallCameras.n = 2
  /\ \E i \in 1..NumMeshes :
       /\ rast_result.returned.verts[i][1][3] =
            rast_call.meshes_world.verts[i][1][3] + 2
       /\ rast_result.returned.verts[i][1][3] #
            projection(CallCameras,
                       world_to_view(CallCameras,
                                     rast_call.meshes_world.verts))[i][1][3]

\* ------------------------------------------------------------------------
\* Independence and purity of the blends, and their sharp limit

\* The image the named blend returns for the given arguments.
BlendBy(name, c, fr, bp, zn, zf) ==
  CASE name = "hard_rgb_blend" -> hard_rgb_blend(c, fr, bp)
    [] name = "sigmoid_alpha_blend" -> sigmoid_alpha_blend(c, fr, bp)
    [] name = "softmax_rgb_blend" -> softmax_rgb_blend(c, fr, bp, zn, zf)
    [] OTHER -> <<>>

\* Pixel p rendered alone: a batch of one image of one pixel.
AloneColors(p) == <<colors[p]>>
AloneFragments(p) ==
  [pix_to_face |-> <<fragments.pix_to_face[p]>>,
   dists |-> <<fragments.dists[p]>>,
   zbuf |-> <<fragments.zbuf[p]>>]

\* Other contents for pixel q: every slot a covering red face when its slot
\* 0 is a sentinel, every slot a sentinel with the payload of a far blue face
\* when it is not.
OtherPixel(q) ==
  IF fragments.pix_to_face[q][1] < 0
  THEN [face |-> 0, dist |-> -32, zbuf |-> 128, color |-> Red]
  ELSE [face |-> -1, dist |-> 16, zbuf |-> 8192, color |-> Blue]

\* The arguments of the call with pixel q replaced by o in every slot.
ColorsWith(q, o) == [colors EXCEPT ![q] = [k \in Slot |-> o.color]]
FragmentsWith(q, o) ==
  [pix_to_face |->
     [fragments.pix_to_face EXCEPT ![q] = [k \in Slot |-> o.face]],
   dists |-> [fragments.dists EXCEPT ![q] = [k \in Slot |-> o.dist]],
   zbuf |-> [fragments.zbuf EXCEPT ![q] = [k \in Slot |-> o.zbuf]]]

\* C17: the output of hard_rgb_blend, sigmoid_alpha_blend and
\* softmax_rgb_blend at a pixel is the output of the same blend on that
\* pixel rendered alone (so it depends on that pixel's colors and fragments
\* and on the blend parameters only), and it is not changed by replacing the
\* contents of any other pixel or batch element.
C17_PixelIndependence ==
  (last_call # "none") =>
    \A p \in Pixels :
      /\ image[p] =
           BlendBy(last_call, AloneColors(p), AloneFragments(p),
                   blend_params, znear, zfar)[1]
      /\ \A q \in Pixels \ {p} :
           image[p] =
             BlendBy(last_call, ColorsWith(q, OtherPixel(q)),
                     FragmentsWith(q, OtherPixel(q)),
                     blend_params, znear, zfar)[p]

\* hard_rgb_blend on an image with two background pixels of which one comes
\* before a covered pixel: the background scattered into them comes from
\* one source shared by the image.
C17_Witness ==
  /\ AfterHard
  /\ \E p, q, r \in Pixels :
       /\ p < q
       /\ q < r
       /\ fragments.pix_to_face[p][1] < 0
       /\ fragments.pix_to_face[q][1] >= 0
       /\ fragments.pix_to_face[r][1] < 0

\* softmax_rgb_blend on pixels that differ in coverage.
C17_WitnessSoftmax ==
  /\ AfterSoftmax
  /\ \E p, q \in Pixels : AllSentinel(p) /\ Real(q, 1) /\ image[p] # image[q]

\* C18: no call of a blend modifies colors, fragments, the blend parameters
\* or the clipping range, and the image a call returns is that of the blend
\* on the arguments of that call, whatever calls came before.
C18_BlendsArePure ==
  [][/\ colors' = colors
     /\ fragments' = fragments
     /\ blend_params' = blend_params
     /\ znear' = znear
     /\ zfar' = zfar
     /\ image' = BlendBy(last_call', colors, fragments, blend_params,
                         znear, zfar)]_vars

\* hard_rgb_blend gave a background pixel the background color while the
\* slot-0 color of that pixel, in the argument, is still another color.
C18_Witness ==
  /\ AfterHard
  /\ \E p \in Pixels :
       /\ fragments.pix_to_face[p][1] < 0
       /\ RGB(image[p]) = blend_params.background_color
       /\ colors[p][1] # blend_params.background_color

\* The scene of the sharp limit: K = 1, sigma = gamma = the smallest grid
\* value, white background, and every pixel covered by a red face that it
\* lies inside of, between znear and zfar.
SharpScene ==
  /\ K = 1
  /\ blend_params.sigma = 1
  /\ blend_params.gamma = 1
  /\ blend_params.background_color = White
  /\ \A p \in Pixels :
       /\ fragments.pix_to_face[p][1] >= 0
       /\ fragments.dists[p][1] < 0
       /\ fragments.zbuf[p][1] >= znear
       /\ fragments.zbuf[p][1] <= zfar
       /\ colors[p][1] = Red

\* C19: on a single red face filling the image, with K = 1, the sharpest
\* sigma and gamma and a white background, hard_rgb_blend and
\* softmax_rgb_blend both give (1, 0, 0, 1) at every pixel, to the
\* resolution of the grid.
C19_SharpLimit ==
  (SharpScene /\ (AfterHard \/ AfterSoftmax)) =>
    \A p \in Pixels : image[p] = <<One, 0, 0, One>>

C19_Witness ==
  /\ SharpScene
  /\ AfterSoftmax
  /\ Len(colors) >= 2

C19_WitnessHard ==
  /\ SharpScene
  /\ AfterHard
  /\ Len(colors) >= 2

\* ------------------------------------------------------------------------
\* Range of the output

\* Every color of the call lies in [0, 1].
ColorsInRange ==
  /\ \A p \in Pixels : \A k \in Slot : \A ch \in 1..3 :
       colors[p][k][ch] \in 0..One
  /\ \A ch \in 1..3 : blend_params.background_color[ch] \in 0..One

\* C21: with the fragment colors and background_color in [0, 1],
\* hard_rgb_blend and softmax_rgb_blend return one RGBA value (4 channels)
\* per pixel of the input, with R, G, B and alpha in [0, 1]; the alpha of
\* hard_rgb_blend is exactly 1.
C21_OutputRange ==
  (ColorsInRange /\ (AfterHard \/ AfterSoftmax)) =>
    /\ Len(image) = NumPix(fragments)
    /\ \A p \in Pixels :
         /\ Len(image[p]) = 4
         /\ \A ch \in 1..4 : image[p][ch] \in 0..One
         /\ AfterHard => image[p][4] = One

\* softmax_rgb_blend, a pixel of K >= 2 slots of which two cover it in part:
\* alpha and a color channel lie strictly inside (0, 1).
C21_Witness ==
  /\ ColorsInRange
  /\ AfterSoftmax
  /\ \E p \in Pixels : \E j, k \in Slot :
       /\ j # k
       /\ Real(p, j) /\ Real(p, k)
       /\ Prob(p, j) > One \div 2
       /\ Prob(p, k) > One \div 2
       /\ image[p][4] \in 1..One
       /\ \E ch \in 1..3 : image[p][ch] \in 1..(One - 1)

\* hard_rgb_blend on an image with a background pixel and a covered pixel.
C21_WitnessHard ==
  /\ ColorsInRange
  /\ AfterHard
  /\ \E p, q \in Pixels :
       fragments.pix_to_face[p][1] < 0 /\ fragments.pix_to_face[q][1] >= 0

\* ------------------------------------------------------------------------
\* Keyword overrides of MeshRasterizer

\* The meshes transform builds with the given cameras.
MeshesScreenWith(cameras) ==
  LET verts_view == world_to_view(cameras, rast_call.meshes_world.verts)
  IN Meshes(SetZ(projection(cameras, verts_view), verts_view))

\* forward has rasterized the meshes as seen by the cameras of the call,
\* with the settings of the call.
ForwardUsedCallObjects ==
  (RasterizerReturned /\ rast_result.method = "forward") =>
    \A i \in RasterizeCalls :
      /\ rast_log[i].meshes = MeshesScreenWith(CallCameras)
      /\ rast_log[i].image_size = CallSettings.image_size
      /\ rast_log[i].blur_radius = CallSettings.blur_radius
      /\ rast_log[i].faces_per_pixel = CallSettings.faces_per_pixel
      /\ rast_log[i].bin_size = CallSettings.bin_size
      /\ rast_log[i].max_faces_per_bin = CallSettings.max_faces_per_bin
      /\ rast_log[i].perspective_correct = CallSettings.perspective_correct
      /\ rast_log[i].cull_backfaces = CallSettings.cull_backfaces
      /\ (CallSettings.clip_barycentric_coords # None =>
            rast_log[i].clip_barycentric_coords =
              CallSettings.clip_barycentric_coords)

\* C22: forward uses the cameras and the raster_settings passed by keyword
\* in place of those of the rasterizer, and those of the rasterizer when the
\* keyword is absent; no call, with or without keywords, changes
\* self.cameras or self.raster_settings, so that later calls find them as
\* constructed.
C22_KeywordOverrides ==
  [][/\ rasterizer' = rasterizer
     /\ ForwardUsedCallObjects']_vars

\* forward with both keywords, on two meshes: the cameras of the call give
\* other screen vertices, and the settings of the call another blur, than
\* those of the rasterizer would.
C22_Witness ==
  /\ RasterizerReturned
  /\ rast_result.method = "forward"
  /\ DOMAIN rast_call.kwargs = {"cameras", "raster_settings"}
  /\ rasterizer.cameras # None
  /\ \A i \in RasterizeCalls :
       /\ rast_log[i].meshes # MeshesScreenWith(rasterizer.cameras)
       /\ rast_log[i].blur_radius # rasterizer.raster_settings.blur_radius

\* forward without keywords.
C22_WitnessAbsent ==
  /\ RasterizerReturned
  /\ rast_result.method = "forward"
  /\ rast_call.kwargs = <<>>
  /\ \A i \in RasterizeCalls :
       /\ rast_log[i].meshes = MeshesScreenWith(rasterizer.cameras)
       /\ rast_log[i].blur_radius = rasterizer.raster_settings.blur_radius

\* ------------------------------------------------------------------------
\* _add_background_color_to_images with a valid background color

\* The compositor has called _add_background_color_to_images (a background
\* is requested and the accumulated image has 4 channels) with a color of 3
\* or 4 values.
AddedValidBackground ==
  /\ CompositorReturned
  /\ BackgroundRequested
  /\ AccumulatedChannels = 4
  /\ ValidLength(RequestedBackground)

\* C23: _add_background_color_to_images with a color of 3 values uses it
\* with alpha 1 appended, and with a color of 4 values uses it as given; the
\* pixels whose first point index is negative, and only those, get their 4
\* channels set to that RGBA value, every other pixel keeps its accumulated
\* features, and the result has the (N, 4, H, W) shape of the input.
C23_AddBackgroundColor ==
  AddedValidBackground =>
    LET b == RequestedBackground
        rgba == IF b.shape = <<3>> THEN b.data \o <<One>> ELSE b.data
    IN /\ Len(rgba) = 4
       /\ DOMAIN comp_images = DOMAIN comp_call.accumulated
       /\ \A n \in Batch :
            /\ DOMAIN comp_images[n] = 1..4
            /\ \A c \in 1..4 :
                 DOMAIN comp_images[n][c] = DOMAIN comp_call.accumulated[n][c]
            /\ \A p \in ImagePixels :
                 Features(comp_images, n, p) =
                   IF comp_call.fragments[n][1][p] < 0
                   THEN rgba
                   ELSE Features(comp_call.accumulated, n, p)

\* A color of 3 values on an image with a pixel without points and a pixel
\* whose first point has index 0; the covered pixel keeps features other
\* than the color.
C23_Witness ==
  /\ AddedValidBackground
  /\ RequestedBackground.shape = <<3>>
  /\ \E n \in Batch : \E p, q \in ImagePixels :
       /\ comp_call.fragments[n][1][p] < 0
       /\ Features(comp_images, n, p) = RequestedBackground.data \o <<One>>
       /\ comp_call.fragments[n][1][q] = 0
       /\ Features(comp_images, n, q) # RequestedBackground.data \o <<One>>

\* A color of 4 values, used as given.
C23_WitnessRGBA ==
  /\ AddedValidBackground
  /\ RequestedBackground.shape = <<4>>
  /\ \E n \in Batch : \E p \in ImagePixels :
       /\ comp_call.fragments[n][1][p] < 0
       /\ Features(comp_images, n, p) = RequestedBackground.data
       /\ Features(comp_images, n, p)[4] # One

\* ------------------------------------------------------------------------
\* What the backward of the sigmoid alpha blend returns

Returned(id) == backward_calls[id][1].returned

\* C24: the backward of an invocation returns three values, one per
\* argument of its forward: for dists a tensor, of the shape of dists, that
\* is the gradient the backward kernel computes from the upstream gradient
\* of alpha and the values of that forward, and None for pix_to_face and
\* for sigma; so every backward pass yields a gradient for dists.
C24_BackwardReturnsGradDists ==
  \A id \in Invocations :
    BackwardDone(id) =>
      LET fwd == forward_calls[id]
          grad_alphas == KernelArgs(id)[1]
      IN /\ Len(Returned(id)) = 3
         /\ Returned(id)[1] # None
         /\ Returned(id)[1] =
              Tensor(<<Len(fwd.dists), Len(fwd.dists[1])>>,
                     C_sigmoid_alpha_blend_backward(
                       grad_alphas, fwd.alphas, fwd.dists, fwd.pix_to_face,
                       fwd.sigma))
         /\ Returned(id)[2] = None
         /\ Returned(id)[3] = None

\* A backward pass whose gradient is not zero where the face is real.
C24_Witness ==
  \E id \in Invocations :
    /\ BackwardDone(id)
    /\ KernelArgs(id)[1] \in GradAlphas
    /\ Returned(id)[2] = None
    /\ \E k \in 1..2 :
         /\ forward_calls[id].pix_to_face[1][k] >= 0
         /\ Returned(id)[1].data[1][k] # 0

\* ------------------------------------------------------------------------
\* Depth ordering of the softmax weights

\* weights_num of pixel p, as softmax_rgb_blend computes it.
WeightsNum(p) ==
  LET px == PixelAt(colors, fragments, p)
      m == mask(px)
      zi == z_inv(px, znear, zfar, m)
  IN weights_num(prob_map(px, blend_params, m), zi, z_inv_max(zi),
                 blend_params)

\* C25: in softmax_rgb_blend, of two real fragments of a pixel with the same
\* signed distance the one with the smaller depth has the greater or equal
\* un-normalized weight w_k; and when the maximum of z_inv over the slots of
\* the pixel exceeds eps, a fragment whose z_inv is that maximum has weight
\* exactly prob_k.
C25_DepthOrdering ==
  AfterSoftmax =>
    \A p \in Pixels :
      LET px == PixelAt(colors, fragments, p)
          m == mask(px)
          prob == prob_map(px, blend_params, m)
          zi == z_inv(px, znear, zfar, m)
          zmax == z_inv_max(zi)
          w == weights_num(prob, zi, zmax, blend_params)
      IN /\ \A j, k \in Slot :
              (/\ Real(p, j)
               /\ Real(p, k)
               /\ fragments.dists[p][j] = fragments.dists[p][k]
               /\ fragments.zbuf[p][j] <= fragments.zbuf[p][k]) =>
                w[j] >= w[k]
         /\ \A k \in Slot :
              (MaxSeq(zi) > Eps /\ zi[k] = MaxSeq(zi)) => w[k] = prob[k]

\* Two real fragments of equal distance and different depth, the nearer one
\* not in the first slot: it attains the maximum of z_inv, above eps, has
\* its probability as weight and outweighs the farther one.
C25_Witness ==
  /\ AfterSoftmax
  /\ \E p \in Pixels : \E j, k \in Slot :
       /\ j > k
       /\ Real(p, j)
       /\ Real(p, k)
       /\ fragments.dists[p][j] = fragments.dists[p][k]
       /\ fragments.zbuf[p][j] < fragments.zbuf[p][k]
       /\ ZInv(p, j) = ZInvMax(p)
       /\ ZInvMax(p) > Eps
       /\ WeightsNum(p)[j] = Prob(p, j)
       /\ WeightsNum(p)[j] > WeightsNum(p)[k]

\* ------------------------------------------------------------------------
\* Hard blend of a scene joined from meshes that do not overlap

\* The meshes of a joined scene, numbered in the order of their first
\* pixel; owner gives, per pixel, the mesh whose faces the pixel's real slots
\* belong to. A scene of more meshes is the scene of one of them joined with
\* the scene of the others.
MeshIds == {1, 2}
Owners ==
  {[p \in Pixels |-> IF p \in S THEN 2 ELSE 1] : S \in SUBSET (Pixels \ {1})}

\* What the shader writes where there is no face.
Black == <<0, 0, 0>>

\* Mesh i rendered individually: the pixels of the other meshes have no face
\* in any slot.
MeshColors(owner, i) ==
  [p \in Pixels |->
     IF owner[p] = i THEN colors[p] ELSE [k \in Slot |-> Black]]
MeshFragments(owner, i) ==
  [pix_to_face |->
     [p \in Pixels |->
        IF owner[p] = i THEN fragments.pix_to_face[p] ELSE [k \in Slot |-> -1]],
   dists |-> fragments.dists,
   zbuf |-> fragments.zbuf]

SetMin(S) == CHOOSE m \in S : \A n \in S : m <= n

\* C26: with a white background and colors in [0, 1], whatever the way the
\* pixels of a scene are shared out between meshes that do not overlap,
\* hard_rgb_blend of the joined scene is, at every pixel and channel, the
\* minimum of hard_rgb_blend of the meshes rendered individually.
C26_JoinedSceneIsMinimum ==
  (AfterHard /\ ColorsInRange /\ blend_params.background_color = White) =>
    \A owner \in Owners :
      LET image1 == hard_rgb_blend(MeshColors(owner, 1),
                                   MeshFragments(owner, 1), blend_params)
          image2 == hard_rgb_blend(MeshColors(owner, 2),
                                   MeshFragments(owner, 2), blend_params)
      IN \A p \in Pixels :
           LET row1 == image1[p]
               row2 == image2[p]
           IN \A ch \in 1..4 : image[p][ch] = SetMin({row1[ch], row2[ch]})

\* Two covered pixels of different colors and a background pixel: rendered
\* individually, the mesh of the first leaves the second white, and the
\* joined image has both colors.
C26_Witness ==
  /\ AfterHard
  /\ blend_params.background_color = White
  /\ \E p, q, r \in Pixels :
       /\ Real(p, 1)
       /\ Real(q, 1)
       /\ ~Real(r, 1)
       /\ image[p] # image[q]
       /\ image[p] = colors[p][1] \o <<One>>
       /\ image[q] = colors[q][1] \o <<One>>
       /\ image[r] = White \o <<One>>
       /\ LET owner == [x \in Pixels |-> IF x = p THEN 1 ELSE 2]
              alone == hard_rgb_blend(MeshColors(owner, 1),
                                      MeshFragments(owner, 1), blend_params)
          IN /\ alone[p] = image[p]
             /\ alone[q] = White \o <<One>>

\* ------------------------------------------------------------------------
\* MeshRasterizer without cameras

\* No cameras at construction and none among the keyword arguments.
NoCameras ==
  /\ rasterizer.cameras = None
  /\ "cameras" \notin DOMAIN rast_call.kwargs

\* C27: on a rasterizer constructed without cameras, a call of transform or
\* forward without the cameras keyword raises ValueError, returns nothing,
\* and has not read the vertices of the meshes, applied a transform, updated
\* the meshes or invoked the rasterization primitive.
C27_NoCamerasRaises ==
  (RasterizerCalled /\ NoCameras) =>
    /\ rast_result.raised = "ValueError"
    /\ rast_result.returned = None
    /\ rast_log = <<>>

\* forward on a rasterizer without cameras, with raster_settings as the only
\* keyword.
C27_Witness ==
  /\ RasterizerCalled
  /\ NoCameras
  /\ rast_result.method = "forward"
  /\ DOMAIN rast_call.kwargs = {"raster_settings"}
  /\ rast_result.raised = "ValueError"

\* transform on a rasterizer without cameras, without keywords.
C27_WitnessTransform ==
  /\ RasterizerCalled
  /\ NoCameras
  /\ rast_result.method = "transform"
  /\ rast_call.kwargs = <<>>
  /\ rast_result.raised = "ValueError"

\* ------------------------------------------------------------------------
\* What is stored at sentinel slots

\* What the rasterizer stores at a slot without face (distance -1, depth
\* -1), with a white color: none of the payloads of the model.
SentinelPayload == [dist |-> -One, zbuf |-> -One, color |-> White]

\* The arguments of the call with the distance, depth and color of every
\* sentinel slot replaced; pix_to_face and the real slots are kept.
SentinelColors(o) ==
  [p \in Pixels |->
     [k \in Slot |-> IF Real(p, k) THEN colors[p][k] ELSE o.color]]
SentinelFragments(o) ==
  [pix_to_face |-> fragments.pix_to_face,
   dists |->
     [p \in Pixels |->
        [k \in Slot |-> IF Real(p, k) THEN fragments.dists[p][k] ELSE o.dist]],
   zbuf |->
     [p \in Pixels |->
        [k \in Slot |-> IF Real(p, k) THEN fragments.zbuf[p][k] ELSE o.zbuf]]]

\* C28: the image of softmax_rgb_blend is the image it gives when the
\* dists, zbuf and colors of every sentinel slot are replaced by fixed
\* values; hence two inputs that agree on pix_to_face and on the real slots
\* give the same RGBA, whatever they store at sentinel slots.
C28_SentinelPayloadsIgnored ==
  AfterSoftmax =>
    image = softmax_rgb_blend(SentinelColors(SentinelPayload),
                              SentinelFragments(SentinelPayload),
                              blend_params, znear, zfar)

\* A pixel with a real slot and a sentinel slot whose stored distance, depth
\* and color all differ from the replacement, the stored depth being nearer
\* than the real one and the stored distance inside the face.
C28_Witness ==
  /\ AfterSoftmax
  /\ \E p \in Pixels : \E j, k \in Slot :
       /\ Real(p, j)
       /\ ~Real(p, k)
       /\ fragments.dists[p][k] < 0
       /\ fragments.zbuf[p][k] < fragments.zbuf[p][j]
       /\ fragments.zbuf[p][k] # SentinelPayload.zbuf
       /\ fragments.dists[p][k] # SentinelPayload.dist
       /\ colors[p][k] # SentinelPayload.color
       /\ image[p][4] \in 1..One
       /\ image[p] # <<blend_params.background_color[1],
                       blend_params.background_color[2],
                       blend_params.background_color[3], 0>>

\* ------------------------------------------------------------------------
\* sigmoid_alpha_blend and the parameters it does not read

\* The blend parameters with another background color and gamma.
BlendParamsWith(b, g) ==
  [sigma |-> blend_params.sigma, gamma |-> g, background_color |-> b]

\* C29: the image of sigmoid_alpha_blend is the image of the same call with
\* any other background_color and gamma in blend_params; and a pixel
\* without real fragment has the color stored at its slot 0 as RGB, not the
\* background color.
C29_SigmoidIgnoresBackgroundAndGamma ==
  AfterSigmoid =>
    /\ \A b \in Backgrounds \cup {Black} : \A g \in Gammas :
         image = sigmoid_alpha_blend(colors, fragments, BlendParamsWith(b, g))
    /\ \A p \in Pixels :
         AllSentinel(p) => RGB(image[p]) = colors[p][1]

\* A pixel without real fragment whose slot-0 color is not the background
\* color, next to a covered pixel.
C29_Witness ==
  /\ AfterSigmoid
  /\ \E p, q \in Pixels :
       /\ AllSentinel(p)
       /\ colors[p][1] # blend_params.background_color
       /\ RGB(image[p]) = colors[p][1]
       /\ image[p][4] = 0
       /\ Real(q, 1)
       /\ image[q][4] > 0

\* ------------------------------------------------------------------------
\* Background pixels of hard_rgb_blend and of softmax_rgb_blend

\* The two blends on the arguments of the call: the image returned, and the
\* other blend applied to the same arguments.
HardImage ==
  IF AfterHard THEN image ELSE hard_rgb_blend(colors, fragments, blend_params)
\* The alpha softmax_rgb_blend gives the pixel: 1 - alpha, of alpha the
\* product of 1 - prob_map over the slots.
SoftmaxAlpha(p) ==
  IF AfterSoftmax THEN image[p][4]
  ELSE LET px == PixelAt(colors, fragments, p)
       IN One - alpha_prod(prob_map(px, blend_params, mask(px)))

\* hard_rgb_blend has painted the pixel with the background color (no face
\* color of the model is a background color).
HardPaintsBackground(p) ==
  RGB(HardImage[p]) = blend_params.background_color
SoftmaxAlphaZero(p) == SoftmaxAlpha(p) = 0

\* The sentinel slots of the pixel come after all its real slots.
SentinelsLast(p) == \A j, k \in Slot : (j < k /\ ~Real(p, j)) => ~Real(p, k)
\* Slot 0 is a sentinel but a later slot is real.
SentinelBeforeReal(p) == ~Real(p, 1) /\ \E k \in Slot : Real(p, k)
\* 1 - prob_k is 1 at every real slot: the probabilities have vanished.
ProbVanishes(p) == \A k \in Slot : Real(p, k) => One - Prob(p, k) = One

\* C30 as stated: when the sentinel slots of a pixel come after its real
\* slots, hard_rgb_blend paints the pixel with the background color exactly
\* when softmax_rgb_blend gives it alpha 0; when slot 0 is a sentinel and a
\* later slot is real, one of them does and the other does not.
C30_BackgroundExactlyWhenAlphaZero ==
  (AfterHard \/ AfterSoftmax) =>
    \A p \in Pixels :
      /\ SentinelsLast(p) => (HardPaintsBackground(p) <=> SoftmaxAlphaZero(p))
      /\ SentinelBeforeReal(p) =>
           ~(HardPaintsBackground(p) <=> SoftmaxAlphaZero(p))

\* C30, amended: when the sentinel slots of a pixel come after its real
\* slots, hard_rgb_blend paints the pixel with the background color exactly
\* when all its K slots are masked; softmax_rgb_blend gives alpha 0 to every
\* pixel whose slots are all masked, and to a pixel with real slots exactly
\* when the probability of each of them has vanished (1 - prob_k = 1). When
\* slot 0 is a sentinel and a later slot is real, hard_rgb_blend paints the
\* background, and softmax_rgb_blend gives alpha above 0 unless the
\* probabilities of the real slots have vanished.
C30_BackgroundClassification ==
  (AfterHard \/ AfterSoftmax) =>
    LET hard == HardImage
    IN \A p \in Pixels :
         LET paints == RGB(hard[p]) = blend_params.background_color
             alpha == SoftmaxAlpha(p)
             vanishes == ProbVanishes(p)
         IN /\ SentinelsLast(p) => (paints <=> AllSentinel(p))
            /\ AllSentinel(p) => alpha = 0
            /\ alpha = 0 <=> vanishes
            /\ SentinelBeforeReal(p) =>
                 /\ paints
                 /\ ~vanishes => alpha > 0

\* hard_rgb_blend of an image with a pixel whose real slot comes first,
\* followed by a sentinel, and a pixel whose only real slot comes after a
\* sentinel and has a probability that has not vanished.
C30_Witness ==
  /\ AfterHard
  /\ \E q, r \in Pixels :
       /\ Real(q, 1)
       /\ ~Real(q, K)
       /\ ~HardPaintsBackground(q)
       /\ ~SoftmaxAlphaZero(q)
       /\ SentinelBeforeReal(r)
       /\ HardPaintsBackground(r)
       /\ ~SoftmaxAlphaZero(r)

\* softmax_rgb_blend of an image with a pixel without faces: alpha 0 where
\* hard_rgb_blend paints the background.
C30_WitnessEmpty ==
  /\ AfterSoftmax
  /\ \E p \in Pixels :
       /\ AllSentinel(p)
       /\ image[p][4] = 0
       /\ HardPaintsBackground(p)

\* softmax_rgb_blend of a covered pixel whose sentinels come last and whose
\* probabilities have all vanished: alpha 0 where hard_rgb_blend paints the
\* color of the face.
C30_WitnessVanished ==
  /\ AfterSoftmax
  /\ \E p \in Pixels :
       /\ Real(p, 1)
       /\ SentinelsLast(p)
       /\ ProbVanishes(p)
       /\ image[p][4] = 0
       /\ ~HardPaintsBackground(p)
====
